---- MODULE Spec2Model ----
(***************************************************************************)
(* AlarMe (Decky Loader plugin) backend, src/main.py: the alarm trigger    *)
(* calculator, the polling loops (alarm checker, reminder checker,         *)
(* Pomodoro handler, timer handler) and the suspend monitor with its       *)
(* reconcilers.                                                            *)
(*                                                                         *)
(* Time is the wall clock in whole seconds; instant 0 is 00:00 local time  *)
(* of a Monday and every day has 86400 seconds (no DST change).  The       *)
(* tasks run on one asyncio loop: a task step is everything a task does    *)
(* between two asyncio.sleep calls, and the clock advances only while      *)
(* every task is asleep.  An ISO string written by isoformat() and read    *)
(* back by fromisoformat() denotes the same instant, so next_trigger is    *)
(* kept as the instant.                                                    *)
(***************************************************************************)
EXTENDS Integers, Sequences, FiniteSets, TLC

VARIABLES
    now,            \* time.time() / datetime.now()
    alarms,         \* settings["alarms"]: id -> alarm
    reminders,      \* settings["reminders"]: id -> reminder
    pomodoro,       \* settings["pomodoro_state"]
    stats,          \* user_settings["pomodoro_stats"] (the totals)
    timers,         \* settings["active_timers"]: id -> timer
    missed,         \* settings["missed_alerts_items"]
    settings,       \* user_settings (the keys the loops read)
    game_running,   \* Plugin._game_running
    last_tick,      \* Plugin.last_tick
    inhibitor,      \* Plugin._sleep_inhibitor_active, _uinput_fd, _jiggler_task
    tasks,          \* the asyncio tasks: name -> [alive, wake, ...]
    mon,            \* the suspend monitor's locals
    emits,          \* the events the last step gave to decky.emit, in order
    step,           \* what the last step did (history, for the properties)
    env             \* the environment: live references, uinput, step counts

vars == <<now, alarms, reminders, pomodoro, stats, timers, missed, settings,
          game_running, last_tick, inhibitor, tasks, mon, emits, step, env>>

----------------------------------------------------------------------------
(* Numbers of the program *)

Day == 86400
Hour == 3600
Minute == 60
None == 0 - 1                \* Python's None for an optional instant
ALARM_GRACE == 90
MAX_REMINDERS == 50
RECENT_TRIGGER == 120
MISSED_DELAY == 60
DEDUP_WINDOW == 60
GAP_THRESHOLD == 5
POLL == 1
ERROR_BACKOFF == 5
DEFAULT_SLEEP_WINDOW == 60

(* Bounds of the model *)

MaxAdvance == 3              \* clock advances in one behaviour
MaxOps == 1                  \* user operations in one behaviour

----------------------------------------------------------------------------
(* Helpers *)

Truthy(x) == x # None /\ x # 0

Max(a, b) == IF a >= b THEN a ELSE b

Abs(x) == IF x < 0 THEN 0 - x ELSE x

DayStart(t) == t - (t % Day)

weekday(t) == (t \div Day) % 7

Event(name, id, count) == [name |-> name, id |-> id, count |-> count]

----------------------------------------------------------------------------
(* The alarm's recurring field: recurring.split(",") as the sequence of its
   comma-separated pieces: <<"once">>, <<"daily">>, <<"0", "2">>, <<"x">>. *)

IsInt(tok) == tok \in {"0", "1", "2", "3", "4", "5", "6", "7"}

int(tok) ==
    CASE tok = "0" -> 0 [] tok = "1" -> 1 [] tok = "2" -> 2 [] tok = "3" -> 3
      [] tok = "4" -> 4 [] tok = "5" -> 5 [] tok = "6" -> 6 [] tok = "7" -> 7

\* [int(d) for d in recurring.split(",")] raises ValueError on a piece that is no integer
Parses(recurring) == \A i \in 1..Len(recurring) : IsInt(recurring[i])

allowed_days(recurring) == {int(recurring[i]) : i \in 1..Len(recurring)}

Named(recurring, name) == recurring = <<name>>

RECURSIVE skip_weekend(_)
skip_weekend(target) ==          \* while target.weekday() >= 5: target += 1 day
    IF weekday(target) >= 5 THEN skip_weekend(target + Day) ELSE target

RECURSIVE skip_weekdays(_)
skip_weekdays(target) ==         \* while target.weekday() < 5: target += 1 day
    IF weekday(target) < 5 THEN skip_weekdays(target + Day) ELSE target

RECURSIVE next_allowed(_, _, _)
next_allowed(target, allowed, n) ==   \* for _ in range(7): ...; falls through to the final return
    IF n = 0 THEN target
    ELSE IF weekday(target) \in allowed THEN target
    ELSE next_allowed(target + Day, allowed, n - 1)

\* now.replace(hour=alarm["hour"], minute=alarm["minute"], second=0, microsecond=0)
target_today(alarm, t) == DayStart(t) + alarm.hour * Hour + alarm.minute * Minute

\* if target.timestamp() < now.timestamp() - 90: target += timedelta(days=1)
past_grace(target, t) == IF target < t - ALARM_GRACE THEN target + Day ELSE target

\* if last_triggered and (now.timestamp() - last_triggered) < 120: target += timedelta(days=1)
recent_guard(alarm, target, t) ==
    IF Truthy(alarm.last_triggered) /\ (t - alarm.last_triggered) < RECENT_TRIGGER
    THEN target + Day ELSE target

\* a calculator that lets the hour:minute schedule govern a snoozed alarm
snooze_after_schedule(alarm, regular) ==
    IF Truthy(alarm.snoozed_until) /\ alarm.snoozed_until > regular
    THEN alarm.snoozed_until ELSE regular

\* if alarm.get("snoozed_until"): return alarm["snoozed_until"]
snooze_first(alarm, regular) ==
    IF Truthy(alarm.snoozed_until) THEN alarm.snoozed_until ELSE regular

\* a fallback that gives a malformed filter no trigger at all
except_return_none(target) == None

\* except: return target.timestamp()
except_return(target) == target

_calculate_next_trigger(alarm, t) ==
    IF ~alarm.enabled THEN None
    ELSE snooze_first(alarm,
        LET target == past_grace(recent_guard(alarm, target_today(alarm, t), t), t)
            recurring == alarm.recurring
        IN  IF Named(recurring, "once") \/ Named(recurring, "daily") THEN target
            ELSE IF Named(recurring, "weekdays") THEN skip_weekend(target)
            ELSE IF Named(recurring, "weekends") THEN skip_weekdays(target)
            ELSE IF Parses(recurring) THEN next_allowed(target, allowed_days(recurring), 7)
            ELSE except_return(target))

----------------------------------------------------------------------------
(* Missed items *)

MissedItem(m_type, m_id, timestamp, details) ==
    [id |-> m_id, type |-> m_type, due_time |-> timestamp, missed_at |-> timestamp,
     details |-> details]

\* a log that takes every report
is_duplicate_never(log, m_id, timestamp) == FALSE

\* for item in missed: if item["id"] == m_id and abs(item["missed_at"] - timestamp) < 60: return
is_duplicate(log, m_id, timestamp) ==
    \E i \in 1..Len(log) :
        log[i].id = m_id /\ Abs(log[i].missed_at - timestamp) < DEDUP_WINDOW

\* whether _add_missed_item gets past its two early returns
logs_missed(log, m_id, timestamp) ==
    settings.missed_alerts_enabled /\ ~is_duplicate(log, m_id, timestamp)

\* missed = [i for i in missed if i["missed_at"] > cutoff]
prune(log, t) ==
    LET cutoff == t - settings.missed_alerts_window * Hour
        Keep(i) == i.missed_at > cutoff
    IN  SelectSeq(log, Keep)

_add_missed_item(log, m_type, m_id, timestamp, details, t) ==
    IF logs_missed(log, m_id, timestamp)
    THEN prune(Append(log, MissedItem(m_type, m_id, timestamp, details)), t)
    ELSE log

\* the events of one _add_missed_item call (_emit_missed_update)
missed_events(log, m_id, timestamp) ==
    IF logs_missed(log, m_id, timestamp)
    THEN <<Event("alarme_missed_items_updated", m_id, 0)>> ELSE <<>>

----------------------------------------------------------------------------
(* Sleep inhibitor *)

\* an aggregator that counts a paused timer and a disabled reminder
should_inhibit_whatever_state(tm, pm, al, rm, t) ==
    \/ \E i \in DOMAIN tm : tm[i].prevent_sleep
    \/ pm.active /\ settings.pomodoro_prevent_sleep
    \/ \E a \in DOMAIN al :
          /\ al[a].enabled /\ al[a].prevent_sleep
          /\ LET next_trigger == _calculate_next_trigger(al[a], t)
             IN  /\ Truthy(next_trigger)
                 /\ 0 < next_trigger - t
                 /\ next_trigger - t <= al[a].prevent_sleep_window * Minute
    \/ \E r \in DOMAIN rm : rm[r].prevent_sleep

should_inhibit(tm, pm, al, rm, t) ==
    \/ \E i \in DOMAIN tm : ~tm[i].paused /\ tm[i].prevent_sleep
    \/ pm.active /\ settings.pomodoro_prevent_sleep
    \/ \E a \in DOMAIN al :
          /\ al[a].enabled /\ al[a].prevent_sleep
          /\ LET next_trigger == _calculate_next_trigger(al[a], t)
             IN  /\ Truthy(next_trigger)
                 /\ 0 < next_trigger - t
                 /\ next_trigger - t <= al[a].prevent_sleep_window * Minute
    \/ \E r \in DOMAIN rm : rm[r].enabled /\ rm[r].prevent_sleep

\* Plugin._sleep_inhibitor_active, whether _uinput_fd holds a descriptor, whether
\* _jiggler_task holds a task, and the descriptors of /dev/uinput the process
\* has open
NoInhibitor == [active |-> FALSE, fd |-> FALSE, jiggler |-> FALSE, open |-> 0]

\* what the platform does with /dev/uinput: the device is created, os.open
\* raises, or os.open succeeds and a later ioctl or write raises
Platforms == {"ok", "refused", "create_fails"}

inhibitor_event(kind, active) ==
    Event("alarme_sleep_inhibitor_updated", kind, IF active THEN 1 ELSE 0)

\* an acquire without "if self._sleep_inhibitor_active: return"
_acquire_every_time(inh) ==
    IF env.uinput = "refused"
    THEN [inhibitor |-> [inh EXCEPT !.fd = FALSE], events |-> <<>>]
    ELSE IF env.uinput = "create_fails"
    THEN [inhibitor |-> [inh EXCEPT !.fd = FALSE, !.open = @ + 1], events |-> <<>>]
    ELSE [inhibitor |-> [active |-> TRUE, fd |-> TRUE, jiggler |-> TRUE,
                         open |-> inh.open + 1],
          events |-> <<inhibitor_event("acquire", TRUE)>>]

_acquire_sleep_inhibitor(inh) ==
    IF inh.active THEN [inhibitor |-> inh, events |-> <<>>]
    ELSE IF env.uinput = "refused"               \* os.open raises
    THEN [inhibitor |-> [inh EXCEPT !.fd = FALSE], events |-> <<>>]
    ELSE IF env.uinput = "create_fails"          \* the local fd is not closed
    THEN [inhibitor |-> [inh EXCEPT !.fd = FALSE, !.open = @ + 1], events |-> <<>>]
    ELSE [inhibitor |-> [active |-> TRUE, fd |-> TRUE, jiggler |-> TRUE,
                         open |-> inh.open + 1],
          events |-> <<inhibitor_event("acquire", TRUE)>>]

_release_sleep_inhibitor(inh) ==
    IF ~inh.active THEN [inhibitor |-> inh, events |-> <<>>]
    ELSE [inhibitor |-> [active |-> FALSE, fd |-> FALSE, jiggler |-> FALSE,
                         open |-> IF inh.fd THEN inh.open - 1 ELSE inh.open],
          events |-> <<inhibitor_event("release", FALSE)>>]

\* the inhibitor and the events of one recomputation, from the inhibitor `inh`
_update_sleep_inhibitor(tm, pm, al, rm, t, inh) ==
    IF should_inhibit(tm, pm, al, rm, t)
    THEN LET r == _acquire_sleep_inhibitor(inh)
         IN  [inhibitor |-> r.inhibitor,
              events |-> r.events \o <<inhibitor_event("", TRUE)>>]
    ELSE LET r == _release_sleep_inhibitor(inh)
         IN  [inhibitor |-> r.inhibitor,
              events |-> r.events \o <<inhibitor_event("", FALSE)>>]

----------------------------------------------------------------------------
(* Tasks and history *)

\* a task created at t / no task (never created, finished or cancelled);
\* end_time is the argument a timer handler was created with
NewTask(t) == [alive |-> TRUE, wake |-> t, end_time |-> None]
NoTask == [alive |-> FALSE, wake |-> 0, end_time |-> None]

Runnable(n) == tasks[n].alive /\ tasks[n].wake <= now

Sleep(ts, n, d) == [ts EXCEPT ![n].wake = now + d]

\* a guard that lets a loop run until the gap is a minute long
StaleAfterMinute == last_tick > 0 /\ now - last_tick > Minute

\* if self.last_tick > 0 and current_time - self.last_tick > 5
Stale == last_tick > 0 /\ now - last_tick > GAP_THRESHOLD

NoHist == [fired |-> {}, lost |-> {}, pre |-> <<>>, gap |-> <<>>, raised |-> FALSE,
           calls |-> <<>>, returned |-> <<>>]

\* the loop's last fire of each alarm, <<instant, calls of the frontend before it>>
NoFires == [a \in {"a1", "a2"} |-> <<>>]

Did(op) == [op |-> op, fires |-> step.fires] @@ NoHist

FirstStep == [op |-> "init", fires |-> NoFires] @@ NoHist

Snapshot ==
    [alarms |-> alarms, reminders |-> reminders, pomodoro |-> pomodoro,
     missed |-> missed, last_tick |-> last_tick, tasks |-> tasks, stats |-> stats,
     timers |-> timers, inhibitor |-> inhibitor, fires |-> step.fires]

AlarmOrder == <<"a1", "a2">>
ReminderOrder == <<"r1", "r2">>

\* dict order: the ids of a store, in insertion order
Items(store, order) == LET In(x) == x \in DOMAIN store IN SelectSeq(order, In)

----------------------------------------------------------------------------
(* _alarm_checker *)

alarm_outcome(alarm, t) ==
    LET next_trigger == _calculate_next_trigger(alarm, t)
    IN  IF ~alarm.enabled THEN "disabled"
        ELSE IF ~Truthy(next_trigger) THEN "none"
        ELSE IF next_trigger > t THEN "wait"
        ELSE IF t - next_trigger > ALARM_GRACE THEN "missed"
        ELSE "fire"

alarm_after_missed(alarm, t) ==
    IF alarm.recurring = <<"once">>
    THEN [alarm EXCEPT !.enabled = FALSE, !.snoozed_until = None]
    ELSE [alarm EXCEPT !.snoozed_until = None, !.last_triggered = t]

\* a write-back that clears the snooze of a fired alarm and leaves a one-shot enabled
alarm_after_fire_keeps_once(alarm, t) ==
    [alarm EXCEPT !.snoozed_until = None,
                  !.last_triggered = IF alarm.snoozed_until # None THEN @ ELSE t]

\* a write-back that stamps last_triggered on a snooze-triggered fire too
alarm_after_fire_stamps_snooze(alarm, t) ==
    IF alarm.recurring = <<"once">>
    THEN [alarm EXCEPT !.enabled = FALSE, !.snoozed_until = None]
    ELSE [alarm EXCEPT !.snoozed_until = None, !.last_triggered = t]

alarm_after_fire(alarm, t) ==
    IF alarm.recurring = <<"once">>
    THEN [alarm EXCEPT !.enabled = FALSE, !.snoozed_until = None]
    ELSE [alarm EXCEPT !.snoozed_until = None,
                       !.last_triggered = IF alarm.snoozed_until # None THEN @ ELSE t]

\* what the triggering branch gives to decky.emit before the write-back
alarm_fire_events(a) == <<>>

RECURSIVE check_alarms(_, _, _)
check_alarms(ids, t, acc) ==
    IF ids = <<>> THEN acc
    ELSE
      LET a == Head(ids)
          alarm == acc.alarms[a]
          what == alarm_outcome(alarm, t)
          next_trigger == _calculate_next_trigger(alarm, t)
          updated == <<Event("alarme_alarms_updated", "", 0)>>
      IN  IF what = "missed" THEN
            check_alarms(Tail(ids), t,
              [alarms |-> [acc.alarms EXCEPT ![a] = alarm_after_missed(alarm, t)],
               missed |-> _add_missed_item(acc.missed, "alarm", a, next_trigger, 0, t),
               events |-> acc.events \o missed_events(acc.missed, a, next_trigger) \o updated,
               fired |-> acc.fired,
               lost |-> acc.lost \cup {a}])
          ELSE IF what = "fire" THEN
            check_alarms(Tail(ids), t,
              [alarms |-> [acc.alarms EXCEPT ![a] = alarm_after_fire(alarm, t)],
               missed |-> acc.missed,
               events |-> acc.events \o alarm_fire_events(a) \o updated,
               fired |-> acc.fired \cup {a},
               lost |-> acc.lost])
          ELSE check_alarms(Tail(ids), t, acc)

_alarm_checker ==
    /\ Runnable("alarm")
    /\ IF Stale
       THEN /\ tasks' = Sleep(tasks, "alarm", POLL)     \* asyncio.sleep(0.5); continue
            /\ step' = Did("alarm_defer")
            /\ emits' = <<>>
            /\ UNCHANGED <<alarms, missed>>
       ELSE LET r == check_alarms(Items(alarms, AlarmOrder), now,
                        [alarms |-> alarms, missed |-> missed, events |-> <<>>,
                         fired |-> {}, lost |-> {}])
            IN  /\ alarms' = r.alarms
                /\ missed' = r.missed
                /\ emits' = r.events
                /\ tasks' = Sleep(tasks, "alarm", POLL)
                /\ step' = [Did("alarm_check") EXCEPT !.fired = r.fired, !.lost = r.lost,
                                  !.fires = [a \in DOMAIN @ |->
                                      IF a \in r.fired THEN <<now, env.nops>> ELSE @[a]],
                                                      !.pre = Snapshot]
    /\ UNCHANGED <<now, reminders, pomodoro, stats, timers, settings, game_running,
                   last_tick, inhibitor, mon, env>>

----------------------------------------------------------------------------
(* _reminder_checker *)

\* a loop that does not ask whether a game is running
reminder_outcome_any_time(reminder, t) ==
    IF ~reminder.enabled THEN "disabled"
    ELSE IF reminder.triggers_remaining = 0 THEN "exhausted"
    ELSE IF ~Truthy(reminder.next_trigger) THEN "none"
    ELSE IF t < reminder.next_trigger THEN "wait"
    ELSE IF t - reminder.next_trigger > MISSED_DELAY THEN "missed"
    ELSE "fire"

reminder_outcome(reminder, t) ==
    IF ~reminder.enabled THEN "disabled"
    ELSE IF reminder.triggers_remaining = 0 THEN "exhausted"
    ELSE IF reminder.only_while_gaming /\ ~game_running THEN "not_gaming"
    ELSE IF ~Truthy(reminder.next_trigger) THEN "none"
    ELSE IF t < reminder.next_trigger THEN "wait"
    ELSE IF t - reminder.next_trigger > MISSED_DELAY THEN "missed"
    ELSE "fire"

\* reminder["next_trigger"] = now + freq; the decrement and the auto-disable
reminder_after_trigger(reminder, t) ==
    LET triggers_remaining == reminder.triggers_remaining
    IN  [reminder EXCEPT
            !.next_trigger = t + reminder.frequency_minutes * Minute,
            !.triggers_remaining = IF triggers_remaining > 0 THEN @ - 1 ELSE @,
            !.enabled = IF triggers_remaining = 1 THEN FALSE ELSE @]

RECURSIVE check_reminders(_, _, _)
check_reminders(ids, t, acc) ==
    IF ids = <<>> THEN acc
    ELSE
      LET r == Head(ids)
          reminder == acc.reminders[r]
          what == reminder_outcome(reminder, t)
          logs == what = "missed" /\ ~reminder.only_while_gaming
      IN  IF what \in {"missed", "fire"} THEN
            check_reminders(Tail(ids), t,
              [reminders |-> [acc.reminders EXCEPT ![r] = reminder_after_trigger(reminder, t)],
               missed |-> IF logs
                          THEN _add_missed_item(acc.missed, "reminder", r,
                                                reminder.next_trigger, 0, t)
                          ELSE acc.missed,
               events |-> acc.events \o
                          (IF logs THEN missed_events(acc.missed, r, reminder.next_trigger)
                           ELSE IF what = "fire"
                                THEN <<Event("alarme_reminder_triggered", r, 0)>>
                                ELSE <<>>),
               fired |-> IF what = "fire" THEN acc.fired \cup {r} ELSE acc.fired,
               lost |-> IF what = "missed" THEN acc.lost \cup {r} ELSE acc.lost])
          ELSE check_reminders(Tail(ids), t, acc)

\* one cycle, from the end of its asyncio.sleep(1) to the next one
_reminder_checker ==
    /\ Runnable("reminder")
    /\ tasks' = Sleep(tasks, "reminder", POLL)
    /\ IF Stale
       THEN /\ step' = Did("reminder_defer")
            /\ emits' = <<>>
            /\ UNCHANGED <<reminders, missed>>
       ELSE LET r == check_reminders(Items(reminders, ReminderOrder), now,
                        [reminders |-> reminders, missed |-> missed, events |-> <<>>,
                         fired |-> {}, lost |-> {}])
            IN  /\ reminders' = r.reminders
                /\ missed' = r.missed
                /\ emits' = r.events \o
                            (IF r.fired \cup r.lost # {}
                             THEN <<Event("alarme_reminders_updated", "", 0)>> ELSE <<>>)
                /\ step' = [Did("reminder_check") EXCEPT !.fired = r.fired,
                                                         !.lost = r.lost,
                                                         !.pre = Snapshot]
    /\ UNCHANGED <<now, alarms, pomodoro, stats, timers, settings, game_running,
                   last_tick, inhibitor, mon, env>>

----------------------------------------------------------------------------
(* _pomodoro_handler *)

\* the totals of _update_pomodoro_stats
_update_pomodoro_stats(st, is_break, duration, completed_session, completed_cycle) ==
    [st EXCEPT
        !.total_break_time = IF is_break THEN @ + Max(0, duration) ELSE @,
        !.total_focus_time = IF is_break THEN @ ELSE @ + Max(0, duration),
        !.total_sessions = IF completed_session /\ ~is_break THEN @ + 1 ELSE @,
        !.total_cycles = IF completed_cycle THEN @ + 1 ELSE @]

phase_stats(st, state, duration) ==
    _update_pomodoro_stats(st, state.is_break, duration, ~state.is_break,
                           state.is_break /\ state.break_type = "long")

\* a handler that takes the long break one session early
next_phase_long_early(state, t) ==
    IF state.is_break
    THEN LET work_duration == settings.pomodoro_work_duration * Minute
             was_long_break == state.break_type = "long"
         IN  [active |-> TRUE, is_break |-> FALSE,
              current_session |-> IF was_long_break THEN 1 ELSE state.current_session + 1,
              current_cycle |-> IF was_long_break THEN state.current_cycle + 1
                                ELSE state.current_cycle,
              start_time |-> t, end_time |-> t + work_duration,
              duration |-> work_duration, break_type |-> ""]
    ELSE LET long == (state.current_session + 1)
                         % settings.pomodoro_sessions_until_long_break = 0
             break_duration == IF long THEN settings.pomodoro_long_break_duration * Minute
                               ELSE settings.pomodoro_break_duration * Minute
         IN  [active |-> TRUE, is_break |-> TRUE,
              current_session |-> state.current_session,
              current_cycle |-> state.current_cycle,
              start_time |-> t, end_time |-> t + break_duration,
              duration |-> break_duration,
              break_type |-> IF long THEN "long" ELSE "short"]

\* the state the handler writes when the phase of `state` ends at t
next_phase(state, t) ==
    IF state.is_break
    THEN LET work_duration == settings.pomodoro_work_duration * Minute
             was_long_break == state.break_type = "long"
         IN  [active |-> TRUE, is_break |-> FALSE,
              current_session |-> IF was_long_break THEN 1 ELSE state.current_session + 1,
              current_cycle |-> IF was_long_break THEN state.current_cycle + 1
                                ELSE state.current_cycle,
              start_time |-> t, end_time |-> t + work_duration,
              duration |-> work_duration, break_type |-> ""]
    ELSE LET long == state.current_session % settings.pomodoro_sessions_until_long_break = 0
             break_duration == IF long THEN settings.pomodoro_long_break_duration * Minute
                               ELSE settings.pomodoro_break_duration * Minute
         IN  [active |-> TRUE, is_break |-> TRUE,
              current_session |-> state.current_session,
              current_cycle |-> state.current_cycle,
              start_time |-> t, end_time |-> t + break_duration,
              duration |-> break_duration,
              break_type |-> IF long THEN "long" ELSE "short"]

phase_event(state) ==
    IF state.is_break THEN Event("alarme_pomodoro_break_ended", "", 0)
    ELSE Event("alarme_pomodoro_work_ended", "", 0)

\* a handler that gives a late phase five minutes
phase_missed_late(remaining) == remaining < 0 - 5 * Minute

\* if remaining < -60
phase_missed(remaining) == remaining < 0 - MISSED_DELAY

_pomodoro_handler ==
    /\ Runnable("pomodoro")
    /\ LET remaining == pomodoro.end_time - now
       IN  IF Stale THEN                      \* asyncio.sleep(0.5); continue
             /\ tasks' = Sleep(tasks, "pomodoro", POLL)
             /\ step' = Did("pomodoro_defer")
             /\ emits' = <<>>
             /\ UNCHANGED <<pomodoro, stats, missed, inhibitor>>
           ELSE IF ~pomodoro.active THEN      \* return
             /\ tasks' = [tasks EXCEPT !["pomodoro"] = NoTask]
             /\ step' = [Did("pomodoro_exit") EXCEPT !.pre = Snapshot]
             /\ emits' = <<>>
             /\ UNCHANGED <<pomodoro, stats, missed, inhibitor>>
           ELSE IF remaining <= 0 /\ phase_missed(remaining) THEN
             LET stopped == [pomodoro EXCEPT !.active = FALSE]
                 inh == _update_sleep_inhibitor(timers, stopped, alarms, reminders, now,
                                                inhibitor)
             IN  /\ missed' = _add_missed_item(missed, "pomodoro", "pomodoro",
                                               pomodoro.end_time, 0, now)
                 /\ stats' = phase_stats(stats, pomodoro, pomodoro.duration)
                 /\ pomodoro' = stopped
                 /\ inhibitor' = inh.inhibitor
                 /\ emits' = missed_events(missed, "pomodoro", pomodoro.end_time)
                             \o <<Event("alarme_pomodoro_updated", "", 0)>> \o inh.events
                 /\ tasks' = [tasks EXCEPT !["pomodoro"] = NoTask]
                 /\ step' = [Did("pomodoro_missed") EXCEPT !.pre = Snapshot]
           ELSE IF remaining <= 0 THEN
             /\ stats' = IF Truthy(pomodoro.start_time)
                         THEN phase_stats(stats, pomodoro, now - pomodoro.start_time)
                         ELSE stats
             /\ pomodoro' = next_phase(pomodoro, now)
             /\ emits' = <<phase_event(pomodoro), Event("alarme_pomodoro_tick", "", 0)>>
             /\ tasks' = Sleep(tasks, "pomodoro", POLL)
             /\ step' = [Did("pomodoro_phase") EXCEPT !.pre = Snapshot]
             /\ UNCHANGED <<missed, inhibitor>>
           ELSE
             /\ emits' = <<Event("alarme_pomodoro_tick", "", remaining)>>
             /\ tasks' = Sleep(tasks, "pomodoro", POLL)
             /\ step' = [Did("pomodoro_tick") EXCEPT !.pre = Snapshot]
             /\ UNCHANGED <<pomodoro, stats, missed, inhibitor>>
    /\ UNCHANGED <<now, alarms, reminders, timers, settings, game_running, last_tick,
                   mon, env>>

----------------------------------------------------------------------------
(* _timer_handler(timer_id, end_time, label), for the timer "t1".  The task
   "t1" is the one self.timer_tasks names; "t1_old" is a handler of the same
   timer that a later create_task has replaced there without cancelling it. *)

Without(store, id) == [x \in DOMAIN store \ {id} |-> store[x]]

\* cancel_timer called by the handler itself: self.timer_tasks[timer_id].cancel()
\* marks the running task, and the CancelledError is delivered at the first
\* await that suspends.  decky.emit may complete without suspending or suspend.
timer_handler(n) ==
    /\ Runnable(n)
    /\ LET end_time == tasks[n].end_time
           remaining == end_time - now
           left == Without(timers, "t1")
           inh == _update_sleep_inhibitor(left, pomodoro, alarms, reminders, now, inhibitor)
           cancelled == <<Event("alarme_timer_cancelled", "t1", 0)>>
           updated == <<Event("alarme_timers_updated", "", 0)>>
       IN  IF remaining > 0 THEN
             /\ emits' = <<Event("alarme_timer_tick", "t1", remaining)>>
             /\ tasks' = Sleep(tasks, n, POLL)
             /\ step' = Did("timer_tick")
             /\ UNCHANGED <<timers, missed, inhibitor>>
           ELSE
             /\ tasks' = [m \in DOMAIN tasks |->
                             IF m = n THEN [tasks[m] EXCEPT !.alive = FALSE]
                             ELSE IF m = "t1" THEN NoTask
                             ELSE tasks[m]]
             /\ step' = [Did("timer_end") EXCEPT !.pre = Snapshot]
             /\ IF "t1" \in DOMAIN timers
                THEN /\ timers' = left
                     /\ \E suspends \in (IF n = "t1" THEN BOOLEAN ELSE {FALSE}) :
                          IF suspends
                          THEN /\ emits' = cancelled
                               /\ UNCHANGED <<missed, inhibitor>>
                          ELSE /\ inhibitor' = inh.inhibitor
                               /\ IF remaining < 0 - MISSED_DELAY
                                  THEN /\ missed' = _add_missed_item(missed, "timer", "t1",
                                                                     end_time, 0, now)
                                       /\ emits' = cancelled \o updated \o inh.events
                                            \o missed_events(missed, "t1", end_time)
                                  ELSE /\ missed' = missed
                                       /\ emits' = cancelled \o updated \o inh.events
                                            \o <<Event("alarme_timer_completed", "t1", 0)>>
                ELSE /\ UNCHANGED <<timers, inhibitor>>
                     /\ IF remaining < 0 - MISSED_DELAY
                        THEN /\ missed' = _add_missed_item(missed, "timer", "t1",
                                                           end_time, 0, now)
                             /\ emits' = missed_events(missed, "t1", end_time)
                        ELSE /\ missed' = missed
                             /\ emits' = <<Event("alarme_timer_completed", "t1", 0)>>
    /\ UNCHANGED <<now, alarms, reminders, pomodoro, stats, settings, game_running,
                   last_tick, mon, env>>

_timer_handler == timer_handler("t1")

replaced_timer_handler == timer_handler("t1_old")

----------------------------------------------------------------------------
(* The suspend reconcilers.  Each takes and gives the record
   [alarms, reminders, pomodoro, missed, tasks, events, raised]: the stores as
   the monitor's pass has them, the events it has emitted, and whether an
   exception has left the pass. *)

occurrence_valid(recurring, candidate) ==
    IF Named(recurring, "once") \/ Named(recurring, "daily") THEN TRUE
    ELSE IF Named(recurring, "weekdays") THEN weekday(candidate) < 5
    ELSE IF Named(recurring, "weekends") THEN weekday(candidate) >= 5
    ELSE Parses(recurring) /\ weekday(candidate) \in allowed_days(recurring)

\* candidate = start_dt.replace(hour, minute); if candidate < start_time: candidate += 1 day
first_candidate(alarm, start_time) ==
    LET candidate == target_today(alarm, start_time)
    IN  IF candidate < start_time THEN candidate + Day ELSE candidate

RECURSIVE scan_alarm(_, _, _, _, _, _)
scan_alarm(a, alarm, candidate, end_time, t, w) ==    \* while candidate.timestamp() < end_time
    IF candidate >= end_time THEN w
    ELSE IF occurrence_valid(alarm.recurring, candidate) THEN
        LET logged == [w EXCEPT
                !.missed = _add_missed_item(w.missed, "alarm", a, candidate, 0, t),
                !.events = @ \o missed_events(w.missed, a, candidate)]
        IN  IF Named(alarm.recurring, "once")
            THEN [logged EXCEPT !.alarms[a].enabled = FALSE,
                                !.alarms[a].snoozed_until = None]     \* break
            ELSE scan_alarm(a, alarm, candidate + Day, end_time, t, logged)
    ELSE scan_alarm(a, alarm, candidate + Day, end_time, t, w)

RECURSIVE check_missed_alarms_from(_, _, _, _, _)
check_missed_alarms_from(ids, start_time, end_time, t, w) ==
    IF ids = <<>> THEN w
    ELSE LET a == Head(ids)
             alarm == w.alarms[a]
         IN  check_missed_alarms_from(Tail(ids), start_time, end_time, t,
                IF ~alarm.enabled THEN w
                ELSE scan_alarm(a, alarm, first_candidate(alarm, start_time),
                                end_time, t, w))

_check_missed_alarms(w, start_time, end_time, t) ==
    check_missed_alarms_from(Items(w.alarms, AlarmOrder), start_time, end_time, t, w)

\* while check_ts < end_time: if check_ts >= start_time: last_missed = check_ts; ...
RECURSIVE walk_occurrences(_, _, _, _, _, _)
walk_occurrences(check_ts, freq, start_time, end_time, processed_count, last_missed) ==
    IF check_ts < end_time
    THEN walk_occurrences(check_ts + freq * Minute, freq, start_time, end_time,
                          processed_count + 1,
                          IF check_ts >= start_time THEN check_ts ELSE last_missed)
    ELSE [check_ts |-> check_ts, processed_count |-> processed_count,
          last_missed |-> last_missed]

\* a reconciler that logs the first occurrence of the walk
first_occurrence(reminder, walk) == reminder.next_trigger

\* the occurrence given to _add_missed_item: last_missed
missed_occurrence(reminder, walk) == walk.last_missed

\* the 'continue' branch for one reminder
report_missed_reminder(r, start_time, end_time, t, w) ==
    LET reminder == w.reminders[r]
        walk == walk_occurrences(reminder.next_trigger, reminder.frequency_minutes,
                                 start_time, end_time, 0, None)
        triggers_remaining == reminder.triggers_remaining
        rem == Max(0, triggers_remaining - walk.processed_count)
        details == IF walk.processed_count > 1 THEN walk.processed_count ELSE 0
    IN  IF ~reminder.enabled \/ reminder.only_while_gaming THEN w
        ELSE IF ~Truthy(walk.last_missed) THEN w
        ELSE [w EXCEPT
                !.reminders[r] =
                    [reminder EXCEPT
                        !.next_trigger = walk.check_ts,
                        !.triggers_remaining = IF triggers_remaining > 0 THEN rem ELSE @,
                        !.enabled = IF triggers_remaining > 0 /\ rem = 0 THEN FALSE ELSE @],
                !.missed = _add_missed_item(w.missed, "reminder", r,
                                            missed_occurrence(reminder, walk), details, t),
                !.events = @ \o missed_events(w.missed, r,
                                              missed_occurrence(reminder, walk))]

\* a shift by the reminder's own period
shift_reminder_by_period(r, suspend_duration, w) ==
    LET reminder == w.reminders[r]
    IN  IF ~reminder.enabled \/ reminder.only_while_gaming THEN w
        ELSE IF ~Truthy(reminder.next_trigger) THEN w
        ELSE [w EXCEPT !.reminders[r].next_trigger = @ + reminder.frequency_minutes * Minute]

\* the 'pause' branch for one reminder: dt += timedelta(seconds=suspend_duration)
shift_reminder(r, suspend_duration, w) ==
    LET reminder == w.reminders[r]
    IN  IF ~reminder.enabled \/ reminder.only_while_gaming THEN w
        ELSE IF ~Truthy(reminder.next_trigger) THEN w
        ELSE [w EXCEPT !.reminders[r].next_trigger = @ + suspend_duration]

RECURSIVE check_missed_reminders_from(_, _, _, _, _)
check_missed_reminders_from(ids, start_time, end_time, t, w) ==
    IF ids = <<>> THEN w
    ELSE check_missed_reminders_from(Tail(ids), start_time, end_time, t,
            IF settings.reminder_suspend_behavior = "pause"
            THEN IF end_time - start_time > 0
                 THEN shift_reminder(Head(ids), end_time - start_time, w)
                 ELSE w
            ELSE report_missed_reminder(Head(ids), start_time, end_time, t, w))

_check_missed_reminders(w, start_time, end_time, t) ==
    check_missed_reminders_from(Items(w.reminders, ReminderOrder),
                                start_time, end_time, t, w)


\* await self._save_pomodoro_state() : the call names no state, so it raises
\* TypeError before anything is stored.  The dict the reconciler changed is the
\* stored one when the settings manager hands out live references.
save_pomodoro_state_without_state(w, changed) ==
    [w EXCEPT !.pomodoro = IF env.live THEN changed ELSE @, !.raised = TRUE]

_check_missed_pomodoro(w, start_time, end_time, t) ==
    LET pm == w.pomodoro
    IN  IF ~pm.active THEN w
        ELSE IF settings.pomodoro_suspend_behavior = "pause" THEN
            IF Truthy(pm.end_time)
            THEN [w EXCEPT !.pomodoro.end_time = @ + (end_time - start_time),
                           !.tasks["pomodoro"] = NewTask(t)]    \* cancel, create_task
            ELSE w
        ELSE IF pm.end_time <= end_time THEN
            save_pomodoro_state_without_state(
                [w EXCEPT
                    !.tasks["pomodoro"] = NoTask,
                    !.missed = _add_missed_item(w.missed, "pomodoro", "pomodoro-session",
                                                pm.end_time, 1, t),
                    !.events = @ \o missed_events(w.missed, "pomodoro-session", pm.end_time)],
                [pm EXCEPT !.active = FALSE])
        ELSE w

----------------------------------------------------------------------------
(* _suspend_monitor *)

Pass == [alarms |-> alarms, reminders |-> reminders, pomodoro |-> pomodoro,
         missed |-> missed, tasks |-> tasks, events |-> <<>>, raised |-> FALSE]

\* a monitor that takes a difference of exactly five seconds for a suspend
jumped_at_threshold(t) == t - last_tick >= GAP_THRESHOLD

\* if now - self.last_tick > 5
jumped(t) == t - last_tick > GAP_THRESHOLD

\* check_start = max(self.last_tick, now - (window_hours * 3600))
check_start(t) == Max(last_tick, t - settings.missed_alerts_window * Hour)

Call(kind, start_time, end_time) ==
    [kind |-> kind, start_time |-> start_time, end_time |-> end_time]

Maybe(run, call) == IF run THEN <<call>> ELSE <<>>

\* the reconcilers the body of "if now - self.last_tick > 5" calls, in order,
\* with the window it gives to each
reconcile_calls(t) ==
    LET enabled == settings.missed_alerts_enabled
        rem == settings.reminder_suspend_behavior
        pom == settings.pomodoro_suspend_behavior
    IN  Maybe(enabled, Call("alarms", check_start(t), t))
        \o Maybe(enabled /\ rem = "continue", Call("reminders", check_start(t), t))
        \o Maybe(enabled /\ pom = "continue", Call("pomodoro", check_start(t), t))
        \o Maybe(rem = "pause", Call("reminders", last_tick, t))
        \o Maybe(pom = "pause", Call("pomodoro", last_tick, t))

run_call(call, w, t) ==
    IF call.kind = "alarms"
    THEN _check_missed_alarms(w, call.start_time, call.end_time, t)
    ELSE IF call.kind = "reminders"
    THEN _check_missed_reminders(w, call.start_time, call.end_time, t)
    ELSE _check_missed_pomodoro(w, call.start_time, call.end_time, t)

\* nothing more runs once an exception has left the pass
RECURSIVE run_calls(_, _, _)
run_calls(calls, w, t) ==
    IF calls = <<>> \/ w.raised THEN w
    ELSE run_calls(Tail(calls), run_call(Head(calls), w, t), t)

\* the body of "if now - self.last_tick > 5", up to its asyncio.sleep(1)
reconcile(w0, t) == run_calls(reconcile_calls(t), w0, t)

\* recent_missed = [i for i in all_missed if i.get("missed_at", 0) >= self.last_tick]
recent_missed(log, since) ==
    LET Recent(i) == i.missed_at >= since IN Len(SelectSeq(log, Recent))

toast_events ==
    IF settings.missed_alerts_enabled /\ recent_missed(missed, last_tick) > 0
    THEN <<Event("alarme_missed_items_toast", "", recent_missed(missed, last_tick))>>
    ELSE <<>>

\* self.last_tick = time.time(), then the loop's first asyncio.sleep(1)
MonitorStart ==
    /\ Runnable("monitor") /\ mon.pc = "start"
    /\ last_tick' = now
    /\ mon' = [mon EXCEPT !.pc = "sample"]
    /\ tasks' = Sleep(tasks, "monitor", POLL)
    /\ emits' = <<>>
    /\ step' = Did("monitor_start")
    /\ UNCHANGED <<now, alarms, reminders, pomodoro, stats, timers, missed, settings,
                   game_running, inhibitor, env>>

\* now = time.time(); no jump: self.last_tick = now
MonitorTrack ==
    /\ Runnable("monitor") /\ mon.pc = "sample"
    /\ ~jumped(now)
    /\ last_tick' = now
    /\ tasks' = Sleep(tasks, "monitor", POLL)
    /\ emits' = <<>>
    /\ step' = Did("monitor_track")
    /\ UNCHANGED <<now, alarms, reminders, pomodoro, stats, timers, missed, settings,
                   game_running, inhibitor, mon, env>>

\* now = time.time(); a jump: the reconcilers, then asyncio.sleep(1); an exception
\* goes to "except Exception": asyncio.sleep(5), then the loop's asyncio.sleep(1)
MonitorReconcile ==
    /\ Runnable("monitor") /\ mon.pc = "sample"
    /\ jumped(now)
    /\ LET w == reconcile(Pass, now)
       IN  /\ alarms' = w.alarms
           /\ reminders' = w.reminders
           /\ pomodoro' = w.pomodoro
           /\ missed' = w.missed
           /\ emits' = w.events
           /\ IF w.raised
              THEN /\ tasks' = Sleep(w.tasks, "monitor", ERROR_BACKOFF + POLL)
                   /\ mon' = mon
              ELSE /\ tasks' = Sleep(w.tasks, "monitor", POLL)
                   /\ mon' = [pc |-> "settle", now |-> now]
           /\ step' = [Did("reconcile") EXCEPT !.pre = Snapshot,
                                               !.gap = <<last_tick, now>>,
                                               !.raised = w.raised,
                                               !.calls = reconcile_calls(now)]
    /\ UNCHANGED <<now, stats, timers, settings, game_running, last_tick, inhibitor, env>>

\* after the pass's asyncio.sleep(1): the toast, self.last_tick = now, asyncio.sleep(1)
MonitorSettle ==
    /\ Runnable("monitor") /\ mon.pc = "settle"
    /\ emits' = toast_events
    /\ last_tick' = mon.now
    /\ mon' = [pc |-> "sample", now |-> mon.now]
    /\ tasks' = Sleep(tasks, "monitor", POLL)
    /\ step' = [Did("settle") EXCEPT !.gap = <<last_tick, mon.now>>]
    /\ UNCHANGED <<now, alarms, reminders, pomodoro, stats, timers, missed, settings,
                   game_running, inhibitor, env>>

_suspend_monitor == MonitorStart \/ MonitorTrack \/ MonitorReconcile \/ MonitorSettle

----------------------------------------------------------------------------
(* The clock: asyncio advances it while every task sleeps; a delta above one
   second is a stall or a suspend of the device. *)

Advance ==
    /\ \A n \in DOMAIN tasks : ~Runnable(n)
    /\ env.nadv < MaxAdvance
    /\ \E d \in env.deltas : now' = now + d
    /\ env' = [env EXCEPT !.nadv = @ + 1]
    /\ emits' = <<>>
    /\ step' = Did("advance")
    /\ UNCHANGED <<alarms, reminders, pomodoro, stats, timers, missed, settings,
                   game_running, last_tick, inhibitor, tasks, mon>>

----------------------------------------------------------------------------
(* Alarm operations of the frontend.  The user works on the first alarm of the
   list. *)

UserAlarms == {"a1"}

AlarmTimes == {<<9, 0>>, <<23, 59>>}
Recurrings == {<<"once">>, <<"daily">>, <<"weekdays">>, <<"weekends">>, <<"5", "6">>, <<"x">>}
SnoozeMinutes == {1}

Op(op) == /\ env.nops < MaxOps
          /\ env' = [env EXCEPT !.nops = @ + 1]
          /\ step' = [Did(op) EXCEPT !.pre = Snapshot]

UserFrame == UNCHANGED <<now, last_tick, tasks, mon, settings, game_running>>

\* a call that tells the frontend of an update all the same
refused_with_update(op) ==
    /\ Op(op)
    /\ emits' = <<Event("alarme_alarms_updated", "", 0)>>
    /\ UNCHANGED <<alarms, reminders, pomodoro, stats, timers, missed, inhibitor>>
    /\ UserFrame

\* a call that returns False or None before it has changed or emitted anything
refused(op) ==
    /\ Op(op)
    /\ emits' = <<>>
    /\ UNCHANGED <<alarms, reminders, pomodoro, stats, timers, missed, inhibitor>>
    /\ UserFrame

cancel_alarm ==
    \E a \in UserAlarms :
        IF a \notin DOMAIN alarms THEN refused("cancel_alarm")
        ELSE
        LET al == [x \in DOMAIN alarms \ {a} |-> alarms[x]]
            inh == _update_sleep_inhibitor(timers, pomodoro, al, reminders, now, inhibitor)
        IN  /\ Op("cancel_alarm")
            /\ alarms' = al
            /\ inhibitor' = inh.inhibitor
            /\ emits' = <<Event("alarme_alarm_deleted", a, 0),
                          Event("alarme_alarms_updated", "", 0)>> \o inh.events
            /\ UNCHANGED <<reminders, pomodoro, stats, timers, missed>>
            /\ UserFrame

toggle_alarm ==
    \E a \in UserAlarms, enabled \in BOOLEAN :
        LET al == [alarms EXCEPT ![a].enabled = enabled, ![a].snoozed_until = None]
            inh == _update_sleep_inhibitor(timers, pomodoro, al, reminders, now, inhibitor)
        IN  IF a \notin DOMAIN alarms THEN refused("toggle_alarm") ELSE
            /\ Op("toggle_alarm")
            /\ alarms' = al
            /\ inhibitor' = inh.inhibitor
            /\ emits' = <<Event("alarme_alarm_updated", a, 0),
                          Event("alarme_alarms_updated", "", 0)>> \o inh.events
            /\ UNCHANGED <<reminders, pomodoro, stats, timers, missed>>
            /\ UserFrame

update_alarm ==
    \E a \in UserAlarms, hm \in AlarmTimes, recurring \in {<<"once">>, <<"daily">>} :
        LET al == [alarms EXCEPT ![a].hour = hm[1], ![a].minute = hm[2],
                                 ![a].recurring = recurring,
                                 ![a].enabled = TRUE,
                                 ![a].snoozed_until = None,
                                 ![a].last_triggered = None]
            inh == _update_sleep_inhibitor(timers, pomodoro, al, reminders, now, inhibitor)
        IN  IF a \notin DOMAIN alarms THEN refused("update_alarm") ELSE
            /\ Op("update_alarm")
            /\ alarms' = al
            /\ inhibitor' = inh.inhibitor
            /\ emits' = <<Event("alarme_alarm_updated", a, 0),
                          Event("alarme_alarms_updated", "", 0)>> \o inh.events
            /\ UNCHANGED <<reminders, pomodoro, stats, timers, missed>>
            /\ UserFrame

snooze_alarm ==
    \E a \in UserAlarms, minutes \in SnoozeMinutes :
        IF a \notin DOMAIN alarms THEN refused("snooze_alarm") ELSE
        /\ Op("snooze_alarm")
        /\ alarms' = [alarms EXCEPT ![a].snoozed_until = now + minutes * Minute,
                                    ![a].enabled = TRUE]
        /\ emits' = <<Event("alarme_alarm_snoozed", a, minutes),
                      Event("alarme_alarms_updated", "", 0)>>
        /\ UNCHANGED <<reminders, pomodoro, stats, timers, missed, inhibitor>>
        /\ UserFrame

----------------------------------------------------------------------------
(* Initial states: the plugin has just run _main, every task it created is
   about to take its first step, and the stores hold what an earlier run left. *)

Alarm(hm, recurring, snoozed_until, prevent_sleep) ==
    [hour |-> hm[1], minute |-> hm[2], recurring |-> recurring, enabled |-> TRUE,
     snoozed_until |-> snoozed_until, last_triggered |-> None,
     prevent_sleep |-> prevent_sleep, prevent_sleep_window |-> DEFAULT_SLEEP_WINDOW]

IdlePomodoro ==
    [active |-> FALSE, is_break |-> FALSE, current_session |-> 0, current_cycle |-> 0,
     start_time |-> None, end_time |-> None, duration |-> 0, break_type |-> ""]

NoStats ==
    [total_focus_time |-> 0, total_break_time |-> 0, total_sessions |-> 0,
     total_cycles |-> 0]

Settings(missed_alerts_enabled, reminder_behavior, pomodoro_behavior) ==
    [missed_alerts_enabled |-> missed_alerts_enabled,
     missed_alerts_window |-> 24,
     reminder_suspend_behavior |-> reminder_behavior,
     pomodoro_suspend_behavior |-> pomodoro_behavior,
     pomodoro_prevent_sleep |-> FALSE,
     snooze_duration |-> 5,
     pomodoro_work_duration |-> 25,
     pomodoro_break_duration |-> 5,
     pomodoro_long_break_duration |-> 15,
     pomodoro_sessions_until_long_break |-> 4,
     overlay_enabled |-> FALSE,
     overlay_max_alerts |-> 2,
     overlay_time_window |-> 1,
     overlay_show_timers |-> TRUE,
     overlay_show_alarms |-> TRUE,
     overlay_show_pomodoros |-> TRUE,
     overlay_show_reminders |-> TRUE]

DEFAULT_SETTINGS == Settings(TRUE, "continue", "continue")

TaskNames == {"alarm", "reminder", "pomodoro", "monitor", "t1", "t1_old"}

\* the tasks _main creates; the reminder checker begins with asyncio.sleep(1)
StartTasks(live) ==
    [n \in TaskNames |->
        IF n \notin live THEN NoTask
        ELSE IF n = "reminder" THEN NewTask(now + POLL)
        ELSE IF n = "t1" THEN [NewTask(now) EXCEPT !.end_time = timers["t1"].end_time]
        ELSE NewTask(now)]

Env(deltas, live) == [deltas |-> deltas, live |-> live, uinput |-> "ok",
                      nadv |-> 0, nops |-> 0, cycle |-> <<>>]

InitCommon ==
    /\ missed = <<>>
    /\ stats = NoStats
    /\ game_running = FALSE
    /\ last_tick = 0
    /\ mon = [pc |-> "start", now |-> 0]
    \* _main ends with _update_sleep_inhibitor()
    /\ inhibitor = _update_sleep_inhibitor(timers, pomodoro, alarms, reminders, now,
                                            NoInhibitor).inhibitor
    /\ emits = <<>>
    /\ step = FirstStep

----------------------------------------------------------------------------
(* Timer operations of the frontend, on the timer "t1", and factory_reset *)

pause_timer ==
    IF "t1" \notin DOMAIN timers \/ timers["t1"].paused THEN refused("pause_timer") ELSE
    /\ LET remaining == timers["t1"].end_time - now
           tm == [timers EXCEPT !["t1"].paused = TRUE,
                                !["t1"].paused_remaining = Max(0, remaining)]
           inh == _update_sleep_inhibitor(tm, pomodoro, alarms, reminders, now, inhibitor)
       IN  /\ Op("pause_timer")
           /\ tasks' = [tasks EXCEPT !["t1"] = NoTask]
           /\ timers' = tm
           /\ inhibitor' = inh.inhibitor
           /\ emits' = <<Event("alarme_timer_paused", "t1", remaining),
                         Event("alarme_timers_updated", "", 0)>> \o inh.events
    /\ UNCHANGED <<now, alarms, reminders, pomodoro, stats, missed, settings,
                   game_running, last_tick, mon>>

resume_timer ==
    IF "t1" \notin DOMAIN timers \/ ~timers["t1"].paused THEN refused("resume_timer") ELSE
    /\ LET remaining == timers["t1"].paused_remaining
           new_end_time == now + remaining
           tm == [timers EXCEPT !["t1"].end_time = new_end_time,
                                !["t1"].paused = FALSE,
                                !["t1"].paused_remaining = None]
           inh == _update_sleep_inhibitor(tm, pomodoro, alarms, reminders, now, inhibitor)
       IN  /\ Op("resume_timer")
           \* self.timer_tasks[timer_id] = create_task(...): a handler that is
           \* there already is not cancelled
           /\ tasks' = [tasks EXCEPT
                            !["t1"] = [NewTask(now) EXCEPT !.end_time = new_end_time],
                            !["t1_old"] = IF tasks["t1"].alive THEN tasks["t1"] ELSE @]
           /\ timers' = tm
           /\ inhibitor' = inh.inhibitor
           /\ emits' = <<Event("alarme_timer_resumed", "t1", remaining),
                         Event("alarme_timers_updated", "", 0)>> \o inh.events
    /\ UNCHANGED <<now, alarms, reminders, pomodoro, stats, missed, settings,
                   game_running, last_tick, mon>>

\* every task is cancelled, every store is cleared, the three checkers start
\* again; the method ends without _update_sleep_inhibitor
factory_reset ==
    /\ Op("factory_reset")
    /\ tasks' = [n \in DOMAIN tasks |->
                    IF n \in {"alarm", "monitor"} THEN NewTask(now)
                    ELSE IF n = "reminder" THEN NewTask(now + POLL)
                    ELSE IF n = "t1_old" THEN tasks[n]
                    ELSE NoTask]
    /\ mon' = [pc |-> "start", now |-> 0]
    /\ settings' = DEFAULT_SETTINGS
    /\ timers' = <<>>
    /\ alarms' = <<>>
    /\ reminders' = <<>>
    /\ missed' = <<>>
    /\ pomodoro' = [active |-> FALSE, is_break |-> FALSE, current_session |-> 1,
                    current_cycle |-> 0, start_time |-> None, end_time |-> None,
                    duration |-> 0, break_type |-> ""]
    /\ stats' = [total_focus_time |-> 0, total_break_time |-> 0, total_sessions |-> 0,
                 total_cycles |-> 0]
    /\ emits' = <<Event("alarme_settings_updated", "", 0),
                  Event("alarme_alarms_updated", "", 0),
                  Event("alarme_timers_updated", "", 0),
                  Event("alarme_reminders_updated", "", 0),
                  Event("alarme_pomodoro_updated", "", 0),
                  Event("alarme_missed_items_updated", "", 0)>>
    /\ UNCHANGED <<now, game_running, last_tick, inhibitor>>

----------------------------------------------------------------------------
(* The plugin's life cycle: _unload stops every task, and the loader's next
   _main runs in a new process on the stored settings. *)

\* suspend_monitor_task lives from _main to _unload
Loaded == tasks["monitor"].alive

\* cancel_timer called by the frontend
\* the stored fields update_timer writes (label, subtle_mode, auto_suspend) are
\* not part of the state
update_timer ==
    IF "t1" \notin DOMAIN timers THEN refused("update_timer")
    ELSE /\ Op("update_timer")
         /\ emits' = <<Event("alarme_timer_updated", "t1", 0),
                       Event("alarme_timers_updated", "", 0)>>
         /\ UNCHANGED <<alarms, reminders, pomodoro, stats, timers, missed, inhibitor>>
         /\ UserFrame

cancel_timer ==
    /\ Loaded
    /\ Op("cancel_timer")
    \* if timer_id in self.timer_tasks: cancel it
    /\ tasks' = IF tasks["t1"].alive THEN [tasks EXCEPT !["t1"] = NoTask] ELSE tasks
    /\ IF "t1" \in DOMAIN timers
       THEN LET left == Without(timers, "t1")
                inh == _update_sleep_inhibitor(left, pomodoro, alarms, reminders, now,
                                               inhibitor)
            IN  /\ timers' = left
                /\ inhibitor' = inh.inhibitor
                /\ emits' = <<Event("alarme_timer_cancelled", "t1", 0),
                              Event("alarme_timers_updated", "", 0)>> \o inh.events
       ELSE /\ emits' = <<>>
            /\ UNCHANGED <<timers, inhibitor>>
    /\ UNCHANGED <<now, alarms, reminders, pomodoro, stats, missed, settings,
                   game_running, last_tick, mon>>

_unload ==
    /\ Loaded
    /\ Op("unload")
    /\ tasks' = [n \in DOMAIN tasks |-> NoTask]
    /\ emits' = <<>>
    /\ UNCHANGED <<now, alarms, reminders, pomodoro, stats, timers, missed, settings,
                   game_running, last_tick, inhibitor, mon>>

\* timers_to_remove: the timers with end_time - current_time <= 0
expired_timers(tm, current_time) ==
    {id \in DOMAIN tm : ~(tm[id].end_time - current_time > 0)}

_main ==
    /\ ~Loaded
    /\ LET timers_to_remove == expired_timers(timers, now)
           kept == [id \in DOMAIN timers \ timers_to_remove |-> timers[id]]
           resumed == (IF "t1" \in DOMAIN kept THEN {"t1"} ELSE {})
                      \cup (IF pomodoro.active /\ pomodoro.end_time # None
                               /\ pomodoro.end_time > now
                            THEN {"pomodoro"} ELSE {})
           inh == _update_sleep_inhibitor(kept, pomodoro, alarms, reminders, now,
                                          NoInhibitor)
       IN  /\ timers' = kept
           /\ tasks' = StartTasks(resumed \cup {"alarm", "reminder", "monitor"})
           /\ inhibitor' = inh.inhibitor
           /\ emits' = inh.events
    /\ last_tick' = 0
    /\ mon' = [pc |-> "start", now |-> 0]
    /\ step' = [Did("main") EXCEPT !.pre = Snapshot]
    /\ UNCHANGED <<now, alarms, reminders, pomodoro, stats, missed, settings,
                   game_running, env>>

----------------------------------------------------------------------------
(* Reminder operations of the frontend.  create_reminder stores the reminder
   under a new id, "r2"; the other operations name "r1". *)

Frequencies == {15}

\* -1 = infinite; the methods store whatever integer the call carries
Recurrences == {0 - 1, 0, 1, 2}

\* reminder_data: the first trigger is frequency_minutes after now
reminder_data(frequency, recurrences, gaming, on_game_start, prevent_sleep) ==
    [enabled |-> TRUE, frequency_minutes |-> frequency,
     next_trigger |-> now + frequency * Minute,
     triggers_remaining |-> recurrences, recurrences |-> recurrences,
     only_while_gaming |-> gaming,
     reset_on_game_start |-> on_game_start,
     prevent_sleep |-> IF gaming THEN FALSE ELSE prevent_sleep]

\* what a reminder operation that changed the store does next
reminder_saved(op, name, id, rm) ==
    LET inh == _update_sleep_inhibitor(timers, pomodoro, alarms, rm, now, inhibitor)
    IN  /\ Op(op)
        /\ reminders' = rm
        /\ inhibitor' = inh.inhibitor
        /\ emits' = <<Event(name, id, 0), Event("alarme_reminders_updated", "", 0)>>
                        \o inh.events

\* what a reminder operation that returns None or False does
reminder_refused(op) == refused(op)

ReminderFrame ==
    UNCHANGED <<now, alarms, pomodoro, stats, timers, missed, settings, game_running,
                last_tick, tasks, mon>>

create_reminder ==
    /\ "r2" \notin DOMAIN reminders
    /\ \E f \in Frequencies, n \in Recurrences, g \in BOOLEAN, z \in BOOLEAN, p \in BOOLEAN :
          IF Cardinality(DOMAIN reminders) >= MAX_REMINDERS
          THEN reminder_refused("create_reminder")
          ELSE reminder_saved("create_reminder", "alarme_reminder_created", "r2",
                              [r \in DOMAIN reminders \cup {"r2"} |->
                                  IF r = "r2" THEN reminder_data(f, n, g, z, p)
                                  ELSE reminders[r]])
    /\ ReminderFrame

\* the counters are reset and the reminder is enabled
update_reminder ==
    /\ \E f \in Frequencies, n \in Recurrences, g \in BOOLEAN, z \in BOOLEAN, p \in BOOLEAN :
          IF "r1" \notin DOMAIN reminders
          THEN reminder_refused("update_reminder")
          ELSE reminder_saved("update_reminder", "alarme_reminder_updated", "r1",
                              [reminders EXCEPT !["r1"] = reminder_data(f, n, g, z, p)])
    /\ ReminderFrame

delete_reminder ==
    /\ IF "r1" \notin DOMAIN reminders
       THEN reminder_refused("delete_reminder")
       ELSE reminder_saved("delete_reminder", "alarme_reminder_deleted", "r1",
                           Without(reminders, "r1"))
    /\ ReminderFrame

toggle_reminder ==
    /\ \E enabled \in BOOLEAN :
          IF "r1" \notin DOMAIN reminders
          THEN reminder_refused("toggle_reminder")
          ELSE LET reminder == reminders["r1"]
                   freq == reminder.frequency_minutes
               IN  reminder_saved("toggle_reminder", "alarme_reminder_updated", "r1",
                      [reminders EXCEPT !["r1"] =
                          IF enabled
                          THEN [reminder EXCEPT
                                   !.enabled = TRUE,
                                   !.next_trigger = now + freq * Minute,
                                   !.triggers_remaining = reminder.recurrences]
                          ELSE [reminder EXCEPT !.enabled = FALSE]])
    /\ ReminderFrame

\* the reset of set_game_running(True) for one reminder
reset_on_game_start(reminder) ==
    IF reminder.enabled /\ reminder.only_while_gaming /\ reminder.reset_on_game_start
    THEN [reminder EXCEPT
             !.next_trigger = now + reminder.frequency_minutes * Minute,
             !.triggers_remaining = IF reminder.recurrences # 0 - 1
                                    THEN reminder.recurrences ELSE @]
    ELSE reminder

set_game_running ==
    /\ \E is_running \in BOOLEAN :
          LET modified == is_running /\ \E r \in DOMAIN reminders :
                              /\ reminders[r].enabled
                              /\ reminders[r].only_while_gaming
                              /\ reminders[r].reset_on_game_start
          IN  /\ game_running' = is_running
              /\ reminders' = IF is_running
                              THEN [r \in DOMAIN reminders |-> reset_on_game_start(reminders[r])]
                              ELSE reminders
              /\ emits' = IF modified THEN <<Event("alarme_reminders_updated", "", 0)>>
                          ELSE <<>>
    /\ Op("set_game_running")
    /\ UNCHANGED <<now, alarms, pomodoro, stats, timers, missed, settings, last_tick,
                   inhibitor, tasks, mon>>

----------------------------------------------------------------------------
(* The alarm system: two alarms, the alarm checker and the suspend monitor. *)

AlarmStarts ==
    {9 * Hour - 1, 9 * Hour + 89, 9 * Hour + 91, 4 * Day + 23 * Hour + 59 * Minute + 58}

AlarmDeltas == {1, 61, Day}

InitAlarm ==
    /\ now \in AlarmStarts
    /\ \E hm \in AlarmTimes, recurring \in Recurrings,
          snoozed_until \in {None, now - 30, now - 100} :
          alarms = [a \in {"a1", "a2"} |->
                       IF a = "a1" THEN Alarm(hm, recurring, snoozed_until, TRUE)
                       ELSE Alarm(<<9, 0>>, <<"weekdays">>, None, FALSE)]
    /\ reminders = <<>>
    /\ timers = <<>>
    /\ pomodoro = IdlePomodoro
    /\ settings \in {Settings(e, "continue", "continue") : e \in BOOLEAN}
    /\ tasks = StartTasks({"alarm", "monitor"})
    /\ env = Env(AlarmDeltas, TRUE)
    /\ InitCommon

NextAlarm ==
    \/ _alarm_checker
    \/ _suspend_monitor
    \/ Advance
    \/ toggle_alarm
    \/ update_alarm
    \/ snooze_alarm

SpecAlarm == InitAlarm /\ [][NextAlarm]_vars

----------------------------------------------------------------------------
(* Properties of the alarm system *)

has_missed(log, m_id, due) ==
    \E i \in 1..Len(log) : log[i].id = m_id /\ log[i].type = "alarm" /\ log[i].due_time = due

\* an enabled, unsnoozed daily alarm that no cycle of the loop has seen before
first_seen_daily(alarm) ==
    /\ alarm.enabled
    /\ alarm.recurring = <<"daily">>
    /\ alarm.snoozed_until = None
    /\ alarm.last_triggered = None

(* C1: the cycle of the alarm loop that first observes an occurrence of an
   enabled daily alarm fires it when it is at most 90 seconds late; when it is
   more than 90 seconds late the cycle does not fire it, logs a MissedItem due
   at the occurrence and leaves the next trigger at the next day's occurrence
   (09:00 observed at 09:01:29 fires, observed at 09:01:31 is logged as missed
   and moved to 09:00 of the next day).  Stated for the occurrence of the
   current day, on the loop's first cycle after the start, with missed alerts
   enabled. *)
C1_GraceWindowFiresOrLogs ==
    (step.op = "alarm_check" /\ env.nadv = 0 /\ env.nops = 0
     /\ settings.missed_alerts_enabled) =>
        \A a \in DOMAIN alarms :
            LET alarm == step.pre.alarms[a]
                due == target_today(alarm, now)
            IN  (first_seen_daily(alarm) /\ due <= now) =>
                    IF now - due <= ALARM_GRACE
                    THEN a \in step.fired
                    ELSE /\ a \notin step.fired
                         /\ has_missed(missed, a, due)
                         /\ _calculate_next_trigger(alarms[a], now) = due + Day

triggered_events(log, a) ==
    {i \in 1..Len(log) : log[i].name = "alarme_alarm_triggered" /\ log[i].id = a}

in_grace(alarm, t) ==
    /\ alarm.enabled
    /\ Truthy(_calculate_next_trigger(alarm, t))
    /\ _calculate_next_trigger(alarm, t) <= t
    /\ t - _calculate_next_trigger(alarm, t) <= ALARM_GRACE

(* C2: a cycle of the alarm loop that finds an enabled alarm whose next trigger
   is between 0 and 90 seconds in the past emits exactly one alarm-triggered
   event for that alarm, together with the post-fire write-back. *)
C2_FireEmitsOneTriggeredEvent ==
    step.op = "alarm_check" =>
        \A a \in DOMAIN alarms :
            in_grace(step.pre.alarms[a], now) =>
                /\ Cardinality(triggered_events(emits, a)) = 1
                /\ alarms[a] = alarm_after_fire(step.pre.alarms[a], now)

enabling_ops == {"toggle_alarm", "update_alarm", "snooze_alarm"}

(* C3: when the alarm loop fires a once alarm, the stored alarm is disabled
   with no snooze and the calculator returns none for it; a disabled once alarm
   keeps returning none, is not fired by the loop, and is enabled again only by
   toggle_alarm, update_alarm or snooze_alarm. *)
C3_OnceFiresOnce ==
    [][\A a \in DOMAIN alarms :
         /\ (step'.op = "alarm_check" /\ a \in step'.fired
             /\ alarms[a].recurring = <<"once">>) =>
                /\ ~alarms'[a].enabled
                /\ alarms'[a].snoozed_until = None
                /\ _calculate_next_trigger(alarms'[a], now') = None
         /\ (alarms[a].recurring = <<"once">> /\ ~alarms[a].enabled) =>
                /\ _calculate_next_trigger(alarms[a], now) = None
                /\ a \notin step'.fired
                /\ (alarms'[a].enabled => step'.op \in enabling_ops)]_vars

C3_OnceFired ==
    /\ step.op = "alarm_check"
    /\ \E a \in step.fired :
          /\ step.pre.alarms[a].recurring = <<"once">>
          /\ ~alarms[a].enabled
          /\ _calculate_next_trigger(alarms[a], now) = None

(* C4: for an enabled, unsnoozed daily alarm whose last_triggered lies between
   0 and 90 seconds after its hour:minute of that day, every call of the
   calculator from last_triggered until the next day's occurrence returns that
   hour:minute plus one day. *)
C4_DailyReturnsNextDay ==
    \A a \in DOMAIN alarms :
        LET alarm == alarms[a]
            original == target_today(alarm, alarm.last_triggered)
        IN  (/\ alarm.enabled
             /\ alarm.recurring = <<"daily">>
             /\ alarm.snoozed_until = None
             /\ Truthy(alarm.last_triggered)
             /\ alarm.last_triggered - original \in 0..ALARM_GRACE
             /\ alarm.last_triggered <= now
             /\ now < original + Day) =>
                _calculate_next_trigger(alarm, now) = original + Day

\* last_triggered values a snoozed alarm may carry
LastTriggereds(t) == {None, t - 10, t - 1000}

(* C5: for an enabled alarm whose snoozed_until is set, the calculator returns
   snoozed_until whatever recurring, hour, minute and last_triggered are; with
   snoozed_until in the past the alarm is due at once. *)
C5_SnoozeGoverns ==
    \A a \in DOMAIN alarms, hm \in AlarmTimes, recurring \in Recurrings,
       last_triggered \in LastTriggereds(now) :
        LET alarm == [alarms[a] EXCEPT !.hour = hm[1], !.minute = hm[2],
                                       !.recurring = recurring,
                                       !.last_triggered = last_triggered]
        IN  /\ (alarms[a].enabled /\ Truthy(alarms[a].snoozed_until)) =>
                   /\ _calculate_next_trigger(alarms[a], now) = alarms[a].snoozed_until
                   /\ _calculate_next_trigger(alarm, now) = alarm.snoozed_until
            /\ (alarms[a].enabled /\ Truthy(alarms[a].snoozed_until)
                /\ alarms[a].snoozed_until <= now) =>
                   alarm_outcome(alarm, now) \in {"fire", "missed"}

C5_PastSnoozeTaken ==
    /\ step.op = "alarm_check"
    /\ \E a \in step.fired \cup step.lost :
          LET alarm == step.pre.alarms[a]
          IN  /\ Truthy(alarm.snoozed_until)
              /\ alarm.snoozed_until < now
              /\ Truthy(alarm.last_triggered)
              /\ target_today(alarm, now) > now

----------------------------------------------------------------------------
(* The system across a suspend: one alarm, two reminders, a timer, a Pomodoro
   session, every polling loop and the suspend monitor. *)

Reminder(next_trigger, only_while_gaming) ==
    [enabled |-> TRUE, frequency_minutes |-> 60, next_trigger |-> next_trigger,
     triggers_remaining |-> 0 - 1, recurrences |-> 0 - 1,
     only_while_gaming |-> only_while_gaming, reset_on_game_start |-> FALSE,
     prevent_sleep |-> FALSE]

Timer(end_time) ==
    [end_time |-> end_time, paused |-> FALSE, paused_remaining |-> None,
     prevent_sleep |-> TRUE]

\* a first work session with `left` seconds to go at t
WorkSession(t, left) ==
    [active |-> TRUE, is_break |-> FALSE, current_session |-> 1, current_cycle |-> 1,
     start_time |-> t + left - settings.pomodoro_work_duration * Minute,
     end_time |-> t + left,
     duration |-> settings.pomodoro_work_duration * Minute, break_type |-> ""]

SuspStart == 8 * Hour

SuspDeltas == {1, 5, 7, 185 * Minute + 10}

InitSusp ==
    /\ now = SuspStart
    /\ alarms = [a \in {"a1"} |-> Alarm(<<9, 0>>, <<"daily">>, None, FALSE)]
    /\ reminders = [r \in {"r1", "r2"} |-> Reminder(now + 10, r = "r2")]
    /\ timers = [t \in {"t1"} |-> Timer(now + 2)]
    /\ settings \in {Settings(e, rb, pb) :
                        e \in BOOLEAN, rb \in {"continue", "pause"},
                        pb \in {"continue", "pause"}}
    /\ pomodoro \in {IdlePomodoro, WorkSession(now, 2)}
    /\ tasks = StartTasks({"alarm", "reminder", "monitor", "t1"}
                          \cup (IF pomodoro.active THEN {"pomodoro"} ELSE {}))
    /\ env \in {Env(SuspDeltas, live) : live \in BOOLEAN}
    /\ InitCommon

NextSusp ==
    \/ _alarm_checker
    \/ _reminder_checker
    \/ _pomodoro_handler
    \/ _timer_handler
    \/ _suspend_monitor
    \/ Advance

SpecSusp == InitSusp /\ [][NextSusp]_vars

----------------------------------------------------------------------------
(* Properties of the suspend reconciliation *)

\* the MissedItems of id that the last step added to the log
logged(id) ==
    {missed[i] : i \in {j \in 1..Len(missed) : missed[j].id = id}}
        \ {step.pre.missed[i] : i \in {j \in 1..Len(step.pre.missed) :
                                          step.pre.missed[j].id = id}}

due_times(items) == {i.due_time : i \in items}

\* the pass of the monitor has just reconciled the gap from T - 10 s to T + 185 min
\* for reminder r: enabled, not gaming-only, every 60 minutes, next_trigger = T
example_gap(r) ==
    /\ step.op = "reconcile"
    /\ LET reminder == step.pre.reminders[r]
       IN  /\ reminder.enabled
           /\ ~reminder.only_while_gaming
           /\ reminder.frequency_minutes = 60
           /\ Truthy(reminder.next_trigger)
           /\ step.gap = <<reminder.next_trigger - 10, reminder.next_trigger + 185 * Minute>>

report_missed == settings.missed_alerts_enabled /\ settings.reminder_suspend_behavior = "continue"

(* C6 as the specification states it: report-missed reconciliation of the gap
   from T - 10 s to T + 185 min logs exactly 3 MissedItems, due at T, T + 60 min
   and T + 120 min, and leaves next_trigger = T + 180 min. *)
C6_ThreeItemsLogged ==
    \A r \in DOMAIN reminders :
        (example_gap(r) /\ report_missed) =>
            LET T == step.pre.reminders[r].next_trigger
            IN  /\ Cardinality(logged(r)) = 3
                /\ due_times(logged(r)) = {T, T + 60 * Minute, T + 120 * Minute}
                /\ reminders[r].next_trigger = T + 180 * Minute

(* C6: with missed alerts enabled, report-missed reconciliation of the gap from
   T - 10 s to T + 185 min logs exactly one MissedItem for the reminder, due at
   the last occurrence inside the gap, T + 180 min, carrying the number of
   occurrences walked (4), and leaves next_trigger at the first occurrence
   after the gap, T + 240 min. *)
C6_LastOccurrenceLogged ==
    \A r \in DOMAIN reminders :
        (example_gap(r) /\ report_missed) =>
            LET T == step.pre.reminders[r].next_trigger
            IN  /\ logged(r) = {MissedItem("reminder", r, T + 180 * Minute, 4)}
                /\ reminders[r].next_trigger = T + 240 * Minute

C6_GapReported ==
    /\ example_gap("r1")
    /\ report_missed
    /\ Cardinality(logged("r1")) = 1
    /\ reminders["r1"].next_trigger = step.pre.reminders["r1"].next_trigger + 240 * Minute

(* C7: a pass of the monitor over a detected gap moves the next_trigger of
   every enabled reminder that is not gaming-only, when reminders pause, and
   the end_time of an active Pomodoro session, when the Pomodoro pauses,
   forward by gap_end - gap_start, and logs no MissedItem for them. *)
C7_PauseShiftsByGap ==
    step.op = "reconcile" =>
        LET d == step.gap[2] - step.gap[1]
            pre == step.pre
        IN  /\ settings.reminder_suspend_behavior = "pause" =>
                \A r \in DOMAIN reminders :
                    (/\ pre.reminders[r].enabled
                     /\ ~pre.reminders[r].only_while_gaming
                     /\ Truthy(pre.reminders[r].next_trigger)) =>
                        /\ reminders[r].next_trigger = pre.reminders[r].next_trigger + d
                        /\ reminders[r].next_trigger - step.gap[2]
                               = pre.reminders[r].next_trigger - step.gap[1]
                        /\ logged(r) = {}
            /\ (settings.pomodoro_suspend_behavior = "pause" /\ pre.pomodoro.active
                /\ Truthy(pre.pomodoro.end_time)) =>
                    /\ pomodoro.end_time = pre.pomodoro.end_time + d
                    /\ logged("pomodoro") = {}
                    /\ logged("pomodoro-session") = {}

\* what _check_missed_reminders leaves for the gap from T - 10 s to T + 185 min,
\* run on the stores as they are
example_reconciled(r) ==
    LET T == reminders[r].next_trigger
    IN  _check_missed_reminders(Pass, T - 10, T + 185 * Minute, now)

example_reminder(r) ==
    /\ reminders[r].enabled
    /\ ~reminders[r].only_while_gaming
    /\ reminders[r].frequency_minutes = 60
    /\ Truthy(reminders[r].next_trigger)

(* C8 as the specification states it: in pause-and-shift mode the reconciler,
   run for the gap from T - 10 s to T + 185 min, leaves next_trigger = T +
   185 min and logs no MissedItem. *)
C8_ShiftedToGapEnd ==
    \A r \in DOMAIN reminders :
        (example_reminder(r) /\ settings.reminder_suspend_behavior = "pause") =>
            /\ example_reconciled(r).reminders[r].next_trigger
                   = reminders[r].next_trigger + 185 * Minute
            /\ example_reconciled(r).missed = missed

(* C8: in pause-and-shift mode the reconciler, run for the gap from T - 10 s to
   T + 185 min, moves next_trigger by the length of the gap, to T + 185 min +
   10 s, and logs no MissedItem. *)
C8_ShiftedByGapLength ==
    \A r \in DOMAIN reminders :
        (example_reminder(r) /\ settings.reminder_suspend_behavior = "pause") =>
            /\ example_reconciled(r).reminders[r].next_trigger
                   = reminders[r].next_trigger + 185 * Minute + 10
            /\ example_reconciled(r).missed = missed
            /\ example_reconciled(r).events = <<>>

C8_GapPaused ==
    /\ example_gap("r1")
    /\ settings.reminder_suspend_behavior = "pause"
    /\ reminders["r1"].next_trigger
           = step.pre.reminders["r1"].next_trigger + 185 * Minute + 10
    /\ missed = step.pre.missed

toasts(log) == {i \in 1..Len(log) : log[i].name = "alarme_missed_items_toast"}

(* C9: a pass of the monitor over a detected gap runs to its end, whatever is
   pending: after the reconcilers the monitor goes on to settle the gap, and
   settling stores the sample in last_tick, returns to tracking and emits one
   toast with the count of the gap's MissedItems when there are any, none
   otherwise. *)
C9_PassCompletes ==
    /\ step.op = "reconcile" =>
          /\ ~step.raised
          /\ mon.pc = "settle"
          /\ mon.now = step.gap[2]
    /\ step.op = "settle" =>
          /\ last_tick = step.gap[2]
          /\ mon.pc = "sample"
          /\ LET count == recent_missed(missed, step.gap[1])
             IN  IF settings.missed_alerts_enabled /\ count > 0
                 THEN /\ Cardinality(toasts(emits)) = 1
                      /\ \A i \in toasts(emits) : emits[i].count = count
                 ELSE toasts(emits) = {}

\* a gap the monitor has not yet settled
gap_pending == last_tick > 0 /\ now - last_tick > GAP_THRESHOLD

deferring_loops ==
    {"alarm_check", "alarm_defer", "reminder_check", "reminder_defer", "pomodoro_defer",
     "pomodoro_exit", "pomodoro_missed", "pomodoro_phase", "pomodoro_tick"}

defers == {"alarm_defer", "reminder_defer", "pomodoro_defer"}

timer_steps == {"timer_tick", "timer_end"}

entities == <<alarms, reminders, pomodoro, stats, timers, missed>>

(* C10 as the specification states it: while last_tick is more than 5 seconds
   old, no step of a polling loop - timer handler, alarm checker, reminder
   checker, Pomodoro handler - changes an entity. *)
C10_EveryLoopDefers ==
    [][(gap_pending /\ step'.op \in deferring_loops \cup timer_steps) =>
            UNCHANGED entities]_vars

(* C10: while last_tick is set and more than 5 seconds old, every step of the
   alarm checker, the reminder checker and the Pomodoro handler is a deferral
   that changes no entity and emits nothing; the timer handler has no such
   guard. *)
C10_CheckersDefer ==
    [][(gap_pending /\ step'.op \in deferring_loops) =>
            /\ step'.op \in defers
            /\ UNCHANGED entities
            /\ emits' = <<>>]_vars

C10_DeferredDueWork ==
    /\ gap_pending
    /\ step.op = "reminder_defer"
    /\ reminders["r1"].enabled
    /\ reminders["r1"].next_trigger <= now

----------------------------------------------------------------------------
(* The alarm system across gaps of every length: one alarm at 09:00, the alarm
   checker and the suspend monitor, with the missed-alerts window at one or
   three days. *)

GapStarts == {8 * Hour, 4 * Day + 8 * Hour}

GapDeltas == {1, 5, 6, Hour + 30, 49 * Hour + 30}

GapWindows == {24, 72}

InitGap ==
    /\ now \in GapStarts
    /\ \E recurring \in {<<"once">>, <<"daily">>, <<"weekdays">>, <<"5", "6">>} :
          alarms = [a \in {"a1"} |-> Alarm(<<9, 0>>, recurring, None, FALSE)]
    /\ reminders = <<>>
    /\ timers = <<>>
    /\ pomodoro = IdlePomodoro
    /\ settings \in {[Settings(e, rb, pb) EXCEPT !.missed_alerts_window = w] :
                        e \in BOOLEAN, rb \in {"continue", "pause"},
                        pb \in {"continue", "pause"}, w \in GapWindows}
    /\ tasks = StartTasks({"alarm", "monitor"})
    /\ env = Env(GapDeltas, TRUE)
    /\ InitCommon

NextGap ==
    \/ _alarm_checker
    \/ _suspend_monitor
    \/ Advance

SpecGap == InitGap /\ [][NextGap]_vars

----------------------------------------------------------------------------
(* Properties of gap detection *)

\* whether the monitor runs the reconciler of `kind` with report-missed semantics
reports(kind) ==
    \/ kind = "alarms"
    \/ kind = "reminders" /\ settings.reminder_suspend_behavior = "continue"
    \/ kind = "pomodoro" /\ settings.pomodoro_suspend_behavior = "continue"

called(calls) == {calls[i].kind : i \in 1..Len(calls)}

(* C11 as the specification states it: a pass of the monitor runs for a
   difference of more than 5 seconds between the stored sample and the current
   one, and the window it gives to the reconciler of every entity kind is
   (previous sample, current sample), whatever the length of the gap. *)
C11_WindowIsGap ==
    step.op = "reconcile" =>
        /\ step.gap[2] - step.gap[1] > GAP_THRESHOLD
        /\ \A i \in 1..Len(step.calls) :
              <<step.calls[i].start_time, step.calls[i].end_time>> = step.gap

(* C11: the monitor starts a pass exactly when the current sample is more than
   5 seconds after the stored one (never at 5 seconds or less).  The pass gives
   the window (previous sample, current sample) to the reconcilers that pause
   and shift; the reconcilers that report missed occurrences (alarms always,
   reminders and the Pomodoro in continue mode, all three only with missed
   alerts enabled) get the window that starts at the later of the previous
   sample and the current sample minus missed_alerts_window hours. *)
C11_ReportWindowClipped ==
    [][/\ (mon.pc = "sample" /\ step'.op \in {"monitor_track", "reconcile"}) =>
              (step'.op = "reconcile" <=> now - last_tick > GAP_THRESHOLD)
       /\ step'.op = "reconcile" =>
              /\ step'.gap = <<last_tick, now>>
              /\ called(step'.calls) =
                    (IF settings.missed_alerts_enabled
                     THEN {k \in {"alarms", "reminders", "pomodoro"} : reports(k)}
                     ELSE {})
                    \cup {k \in {"reminders", "pomodoro"} : ~reports(k)}
              /\ \A i \in 1..Len(step'.calls) :
                    LET call == step'.calls[i]
                        clipped == now - settings.missed_alerts_window * Hour
                    IN  /\ call.end_time = now
                        /\ call.start_time =
                              IF reports(call.kind) /\ clipped > last_tick
                              THEN clipped ELSE last_tick]_vars

C11_LongGapClipped ==
    /\ step.op = "reconcile"
    /\ step.calls # <<>>
    /\ step.calls[1].kind = "alarms"
    /\ step.calls[1].start_time > step.gap[1]
    /\ step.calls[Len(step.calls)].start_time = step.gap[1]

SetMin(S) == CHOOSE x \in S : \A y \in S : x <= y

SetMax(S) == CHOOSE x \in S : \A y \in S : y <= x

\* the instants hour:minute of the alarm strictly inside (from, to) that its
\* recurrence lets through
gap_occurrences(alarm, from, to) ==
    {c \in {d * Day + alarm.hour * Hour + alarm.minute * Minute :
                d \in (from \div Day)..(to \div Day)} :
        from < c /\ c < to /\ occurrence_valid(alarm.recurring, c)}

(* C12: on a detected gap no longer than the missed-alerts window, with missed
   alerts enabled and whatever the reminder and Pomodoro behaviours are, the
   pass logs a MissedItem for every occurrence of an enabled alarm inside the
   gap that its recurrence lets through; a once alarm is logged for its first
   occurrence only and is left disabled with no snooze; a recurring alarm is
   left so that its next trigger comes after its most recent missed
   occurrence. *)
C12_AlarmsReportMissed ==
    (/\ step.op = "reconcile"
     /\ settings.missed_alerts_enabled
     /\ step.gap[2] - step.gap[1] <= settings.missed_alerts_window * Hour) =>
        \A a \in DOMAIN alarms :
            LET alarm == step.pre.alarms[a]
                due == gap_occurrences(alarm, step.gap[1], step.gap[2])
            IN  (alarm.enabled /\ due # {}) =>
                    IF alarm.recurring = <<"once">>
                    THEN /\ due_times(logged(a)) = {SetMin(due)}
                         /\ ~alarms[a].enabled
                         /\ alarms[a].snoozed_until = None
                    ELSE /\ due_times(logged(a)) = due
                         /\ _calculate_next_trigger(alarms[a], now) > SetMax(due)

----------------------------------------------------------------------------
(* The sleep inhibitor: any of a once alarm, a one-shot reminder, a timer and
   a Pomodoro session, each asking to keep the device awake, every loop, the
   frontend operations, and a platform that creates the uinput device or
   refuses it. *)

InhibitStart == 9 * Hour - 1

InhibitDeltas == {1, 7}

TimerKinds == {"none", "running", "paused"}

InitInhibit ==
    /\ now = InhibitStart
    /\ \E has_alarm \in BOOLEAN, has_reminder \in BOOLEAN, kind \in TimerKinds :
          /\ alarms = [a \in (IF has_alarm THEN {"a1"} ELSE {}) |->
                          Alarm(<<9, 0>>, <<"once">>, None, TRUE)]
          /\ reminders = [r \in (IF has_reminder THEN {"r1"} ELSE {}) |->
                             [Reminder(now + 1, FALSE) EXCEPT !.prevent_sleep = TRUE,
                                                              !.triggers_remaining = 1]]
          /\ timers = [t \in (IF kind = "none" THEN {} ELSE {"t1"}) |->
                          [Timer(now + 2) EXCEPT
                              !.paused = (kind = "paused"),
                              !.paused_remaining = IF kind = "paused" THEN 2 ELSE None]]
    /\ settings \in {[DEFAULT_SETTINGS EXCEPT !.pomodoro_prevent_sleep = f] : f \in BOOLEAN}
    /\ pomodoro \in {IdlePomodoro, WorkSession(now, 2)}
    /\ tasks = StartTasks({"alarm", "reminder", "monitor"}
                          \cup (IF DOMAIN timers # {} THEN {"t1"} ELSE {})
                          \cup (IF pomodoro.active THEN {"pomodoro"} ELSE {}))
    /\ env \in {[Env(InhibitDeltas, TRUE) EXCEPT !.uinput = u] : u \in Platforms}
    /\ InitCommon

NextInhibit ==
    \/ _alarm_checker
    \/ _reminder_checker
    \/ _pomodoro_handler
    \/ _timer_handler
    \/ _suspend_monitor
    \/ Advance
    \/ toggle_alarm
    \/ snooze_alarm
    \/ pause_timer
    \/ resume_timer
    \/ factory_reset

SpecInhibit == InitInhibit /\ [][NextInhibit]_vars

----------------------------------------------------------------------------
(* Properties of the sleep inhibitor *)

acquires(log) ==
    {i \in 1..Len(log) : log[i].name = "alarme_sleep_inhibitor_updated"
                           /\ log[i].id = "acquire"}

releases(log) ==
    {i \in 1..Len(log) : log[i].name = "alarme_sleep_inhibitor_updated"
                           /\ log[i].id = "release"}

(* C13: a recomputation run twice in a row on unchanged stores and settings
   acquires and releases nothing in its second run; over every behaviour a
   step acquires the awake-handle only from the inactive inhibitor and
   releases it only from the active one, at most one of the two in a step, and
   the inhibitor changes only with them, so acquires and releases alternate;
   the jiggler task and the device exist exactly while the inhibitor is
   active. *)
C13_AcquireReleasePaired ==
    [][/\ LET first == _update_sleep_inhibitor(timers, pomodoro, alarms, reminders,
                                               now, inhibitor)
              second == _update_sleep_inhibitor(timers, pomodoro, alarms, reminders,
                                                now, first.inhibitor)
          IN  /\ acquires(second.events) = {}
              /\ releases(second.events) = {}
              /\ second.inhibitor.active = first.inhibitor.active
              /\ second.inhibitor.jiggler = first.inhibitor.jiggler
       /\ Cardinality(acquires(emits')) + Cardinality(releases(emits')) <= 1
       /\ acquires(emits') # {} <=> (~inhibitor.active /\ inhibitor'.active)
       /\ releases(emits') # {} <=> (inhibitor.active /\ ~inhibitor'.active)
       /\ inhibitor'.jiggler = inhibitor'.active
       /\ inhibitor'.fd = inhibitor'.active]_vars

C13_ReleasedAfterAcquire ==
    /\ releases(emits) # {}
    /\ ~inhibitor.active
    /\ step.op = "pause_timer"

\* the four conditions under which an item asks to keep the device awake
eligible(tm, pm, al, rm) ==
    \/ \E t \in DOMAIN tm : ~tm[t].paused /\ tm[t].prevent_sleep
    \/ pm.active /\ settings.pomodoro_prevent_sleep
    \/ \E a \in DOMAIN al :
          /\ al[a].enabled /\ al[a].prevent_sleep
          /\ _calculate_next_trigger(al[a], now) # None
          /\ _calculate_next_trigger(al[a], now) > now
          /\ _calculate_next_trigger(al[a], now) <= now + al[a].prevent_sleep_window * Minute
    \/ \E r \in DOMAIN rm : rm[r].enabled /\ rm[r].prevent_sleep

\* the steps that end with a recomputation: _main, toggle_alarm, pause_timer,
\* resume_timer
recomputing == {"init", "toggle_alarm", "pause_timer", "resume_timer"}

\* the last step ended with a recomputation: _main, or one of the operations
\* when it was not refused
recomputed == step.op \in recomputing /\ (step.op = "init" \/ emits # <<>>)

(* C14: with a platform that creates the device, a recomputation leaves the
   inhibitor active exactly when some timer is unpaused and has prevent_sleep,
   or the Pomodoro session is active and pomodoro_prevent_sleep is set, or some
   enabled alarm with prevent_sleep has its next trigger after now and at most
   prevent_sleep_window minutes ahead, or some enabled reminder has
   prevent_sleep.  Checked after every step that ends with a recomputation, on
   the stores it left and on the same stores with every setting of the
   flags. *)
C14_ActiveIffEligible ==
    (env.uinput = "ok" /\ recomputed) =>
        /\ inhibitor.active <=> eligible(timers, pomodoro, alarms, reminders)
        /\ \A paused \in BOOLEAN, timer_flag \in BOOLEAN, active \in BOOLEAN,
              alarm_enabled \in BOOLEAN, alarm_flag \in BOOLEAN, window \in {0, 60},
              reminder_enabled \in BOOLEAN, reminder_flag \in BOOLEAN :
               LET tm == [t \in DOMAIN timers |->
                             [timers[t] EXCEPT !.paused = paused,
                                               !.prevent_sleep = timer_flag]]
                   pm == [pomodoro EXCEPT !.active = active]
                   al == [a \in DOMAIN alarms |->
                             [alarms[a] EXCEPT !.enabled = alarm_enabled,
                                               !.prevent_sleep = alarm_flag,
                                               !.prevent_sleep_window = window]]
                   rm == [r \in DOMAIN reminders |->
                             [reminders[r] EXCEPT !.enabled = reminder_enabled,
                                                  !.prevent_sleep = reminder_flag]]
                   after == _update_sleep_inhibitor(tm, pm, al, rm, now, inhibitor)
               IN  after.inhibitor.active <=> eligible(tm, pm, al, rm)

C14_PausedTimerReleases ==
    /\ step.op = "pause_timer"
    /\ env.uinput = "ok"
    /\ timers["t1"].paused /\ timers["t1"].prevent_sleep
    /\ ~inhibitor.active
    /\ \A a \in DOMAIN alarms : ~alarms[a].enabled

idle == \A n \in DOMAIN tasks : ~Runnable(n)

(* C15: whenever every task is asleep, on a platform that creates the device,
   the inhibitor is active exactly when some item is eligible: every step that
   changed a timer, an alarm, a reminder or the Pomodoro session has been
   followed by a recomputation. *)
C15_InhibitorFollowsItems ==
    (idle /\ env.uinput = "ok") =>
        (inhibitor.active <=> eligible(timers, pomodoro, alarms, reminders))

(* C16: on a platform that refuses the device the inhibitor stays inactive,
   with no jiggler task, no descriptor kept and no descriptor of /dev/uinput
   left open. *)
C16_FailedAcquireLeavesNothing ==
    env.uinput # "ok" =>
        /\ ~inhibitor.active
        /\ ~inhibitor.jiggler
        /\ ~inhibitor.fd
        /\ inhibitor.open = 0

----------------------------------------------------------------------------
(* The Pomodoro session: a phase that is ending, its handler and the suspend
   monitor.  _main creates the handler while end_time is ahead of its clock;
   the handler's first step may come later, after end_time, when the device is
   suspended in between. *)

PomodoroStart == 10 * Hour

PomodoroDeltas == {1, 7}

SessionsUntilLong == {2, 3}

\* seconds from end_time to the handler's first step (negative: still ahead)
Lateness == {0 - 1, 60, 61}

Phase(session, cycle, kind, end_time) ==
    LET duration == IF kind = "work" THEN settings.pomodoro_work_duration * Minute
                    ELSE IF kind = "long" THEN settings.pomodoro_long_break_duration * Minute
                    ELSE settings.pomodoro_break_duration * Minute
    IN  [active |-> TRUE, is_break |-> kind # "work", current_session |-> session,
         current_cycle |-> cycle, start_time |-> end_time - duration,
         end_time |-> end_time, duration |-> duration,
         break_type |-> IF kind = "work" THEN "" ELSE kind]

InitPomodoro ==
    /\ now = PomodoroStart
    /\ alarms = <<>>
    /\ reminders = <<>>
    /\ timers = <<>>
    /\ settings \in {[Settings(e, "continue", "continue") EXCEPT
                         !.pomodoro_sessions_until_long_break = n] :
                        e \in BOOLEAN, n \in SessionsUntilLong}
    /\ \E session \in 1..3, cycle \in 1..2, kind \in {"work", "short", "long"},
          late \in Lateness :
          /\ kind = "long" => session % settings.pomodoro_sessions_until_long_break = 0
          /\ kind = "short" => session % settings.pomodoro_sessions_until_long_break # 0
          /\ pomodoro = Phase(session, cycle, kind, now - late)
    /\ tasks = StartTasks({"pomodoro", "monitor"})
    /\ env = Env(PomodoroDeltas, TRUE)
    /\ InitCommon

\* a skip that keeps counting sessions after a long break
skipped_phase_counts_on(state, t) ==
    IF state.is_break
    THEN [active |-> TRUE, is_break |-> FALSE,
          current_session |-> state.current_session + 1,
          current_cycle |-> state.current_cycle, start_time |-> t,
          end_time |-> t + settings.pomodoro_work_duration * Minute,
          duration |-> settings.pomodoro_work_duration * Minute, break_type |-> ""]
    ELSE LET long == state.current_session % settings.pomodoro_sessions_until_long_break = 0
             break_duration == IF long
                               THEN settings.pomodoro_long_break_duration * Minute
                               ELSE settings.pomodoro_break_duration * Minute
         IN  [active |-> TRUE, is_break |-> TRUE,
              current_session |-> state.current_session,
              current_cycle |-> state.current_cycle, start_time |-> t,
              end_time |-> t + break_duration, duration |-> break_duration,
              break_type |-> IF long THEN "long" ELSE "short"]

\* skip_pomodoro_phase: the state the frontend's "skip" stores for the phase
\* after `state`, started at instant t
skipped_phase(state, t) ==
    LET is_break == state.is_break
        session == state.current_session
        cycle == state.current_cycle
    IN  IF is_break
        THEN LET was_long_break == state.break_type = "long"
                 new_session == IF was_long_break THEN 1 ELSE session + 1
                 new_cycle == IF was_long_break THEN cycle + 1 ELSE cycle
                 work_duration == settings.pomodoro_work_duration * Minute
             IN  [active |-> TRUE, is_break |-> FALSE, current_session |-> new_session,
                  current_cycle |-> new_cycle, start_time |-> t,
                  end_time |-> t + work_duration, duration |-> work_duration,
                  break_type |-> ""]
        ELSE LET sessions_until_long == settings.pomodoro_sessions_until_long_break
                 long == session % sessions_until_long = 0
                 break_duration == IF long
                                   THEN settings.pomodoro_long_break_duration * Minute
                                   ELSE settings.pomodoro_break_duration * Minute
                 break_type == IF long THEN "long" ELSE "short"
             IN  [active |-> TRUE, is_break |-> TRUE, current_session |-> session,
                  current_cycle |-> cycle, start_time |-> t,
                  end_time |-> t + break_duration, duration |-> break_duration,
                  break_type |-> break_type]

skip_pomodoro_phase ==
    IF ~pomodoro.active THEN refused("skip_pomodoro_phase") ELSE
    /\ Op("skip_pomodoro_phase")
    /\ stats' = IF Truthy(pomodoro.start_time)
                THEN phase_stats(stats, pomodoro, now - pomodoro.start_time)
                ELSE stats
    /\ pomodoro' = skipped_phase(pomodoro, now)
    \* the running handler is cancelled and a new one is created
    /\ tasks' = [tasks EXCEPT !["pomodoro"] = NewTask(now)]
    /\ emits' = <<Event("alarme_pomodoro_phase_changed", "", 0)>>
    /\ UNCHANGED <<now, alarms, reminders, timers, missed, settings, game_running,
                   last_tick, inhibitor, mon>>

NextPomodoro ==
    \/ _pomodoro_handler
    \/ _suspend_monitor
    \/ Advance
    \/ skip_pomodoro_phase

SpecPomodoro == InitPomodoro /\ [][NextPomodoro]_vars

----------------------------------------------------------------------------
(* Properties of the Pomodoro handler *)

(* C17: when a phase expires naturally, with N = sessions_until_long_break: a
   work session whose number is a multiple of N is followed by a long break and
   every other work session by a short break, and neither current_session nor
   current_cycle changes; after a long break current_session is 1 and
   current_cycle is one more; after a short break current_session is one more
   and current_cycle is unchanged. *)
C17_CycleArithmetic ==
    step.op = "pomodoro_phase" =>
        LET pre == step.pre.pomodoro
            N == settings.pomodoro_sessions_until_long_break
        IN  /\ pomodoro.active
            /\ ~pre.is_break =>
                  /\ pomodoro.is_break
                  /\ pomodoro.break_type =
                        (IF pre.current_session % N = 0 THEN "long" ELSE "short")
                  /\ pomodoro.duration =
                        (IF pre.current_session % N = 0
                         THEN settings.pomodoro_long_break_duration * Minute
                         ELSE settings.pomodoro_break_duration * Minute)
                  /\ pomodoro.current_session = pre.current_session
                  /\ pomodoro.current_cycle = pre.current_cycle
            /\ (pre.is_break /\ pre.break_type = "long") =>
                  /\ ~pomodoro.is_break
                  /\ pomodoro.current_session = 1
                  /\ pomodoro.current_cycle = pre.current_cycle + 1
            /\ (pre.is_break /\ pre.break_type # "long") =>
                  /\ ~pomodoro.is_break
                  /\ pomodoro.current_session = pre.current_session + 1
                  /\ pomodoro.current_cycle = pre.current_cycle

C17_LongBreakEnded ==
    /\ step.op = "pomodoro_phase"
    /\ step.pre.pomodoro.is_break
    /\ step.pre.pomodoro.break_type = "long"
    /\ step.pre.pomodoro.current_session = 3
    /\ pomodoro.current_session = 1
    /\ pomodoro.current_cycle = step.pre.pomodoro.current_cycle + 1

(* C18: a step of the handler that finds the phase expired more than 60
   seconds ago starts no next phase: with missed alerts enabled it logs one
   pomodoro MissedItem due at end_time, it credits the phase's intended
   duration to the stats, stores the session unchanged but for active = false,
   and the handler ends; a step that finds it expired at most 60 seconds ago
   moves to the next phase and the session stays active. *)
C18_LateExpiryStops ==
    LET pre == step.pre.pomodoro
        late == now - pre.end_time
    IN  /\ step.op \in {"pomodoro_phase", "pomodoro_tick"} => late <= MISSED_DELAY
        /\ step.op = "pomodoro_phase" =>
              /\ late >= 0
              /\ pomodoro.active
              /\ pomodoro.start_time = now
              /\ pomodoro.is_break # pre.is_break
              /\ tasks["pomodoro"].alive
              /\ logged("pomodoro") = {}
        /\ step.op = "pomodoro_missed" =>
              /\ late > MISSED_DELAY
              /\ pomodoro = [pre EXCEPT !.active = FALSE]
              /\ ~tasks["pomodoro"].alive
              /\ settings.missed_alerts_enabled =>
                    logged("pomodoro") = {MissedItem("pomodoro", "pomodoro", pre.end_time, 0)}
              /\ IF pre.is_break
                 THEN /\ stats.total_break_time = step.pre.stats.total_break_time + pre.duration
                      /\ stats.total_focus_time = step.pre.stats.total_focus_time
                 ELSE /\ stats.total_focus_time = step.pre.stats.total_focus_time + pre.duration
                      /\ stats.total_break_time = step.pre.stats.total_break_time

C18_LatePhaseLogged ==
    /\ step.op = "pomodoro_missed"
    /\ now - step.pre.pomodoro.end_time = 61
    /\ Cardinality(logged("pomodoro")) = 1
    /\ ~pomodoro.active
    /\ stats.total_focus_time = step.pre.pomodoro.duration

----------------------------------------------------------------------------
(* Properties of the timer handler *)

\* the events named name that the last step emitted
emitted(name) == {i \in 1..Len(emits) : emits[i].name = name}

(* C19: a step of the timer handler that finds now >= end_time removes the
   timer from the store; at most 60 seconds past end_time it emits exactly one
   timer_completed event for the timer and logs nothing; more than 60 seconds
   past it, with missed alerts enabled, it logs one timer MissedItem due at
   end_time and emits no timer_completed event. *)
C19_TimerEndReported ==
    step.op = "timer_end" =>
        LET end_time == step.pre.tasks["t1"].end_time
        IN  /\ now >= end_time
            /\ "t1" \notin DOMAIN timers
            /\ IF now - end_time <= MISSED_DELAY
               THEN /\ Cardinality(emitted("alarme_timer_completed")) = 1
                    /\ logged("t1") = {}
               ELSE /\ emitted("alarme_timer_completed") = {}
                    /\ settings.missed_alerts_enabled =>
                          logged("t1") = {MissedItem("timer", "t1", end_time, 0)}

----------------------------------------------------------------------------
(* A timer across a stop and a restart of the plugin: the timer "t1", the
   loops, the frontend's cancel, pause and resume, _unload and _main. *)

RestartStart == 8 * Hour

RestartDeltas == {1, 2, 70}

InitRestart ==
    /\ now = RestartStart
    /\ alarms = <<>>
    /\ reminders = <<>>
    \* the timer runs, or the frontend has paused it with two seconds to go
    /\ timers \in {[t \in {"t1"} |-> Timer(now + 2)],
                   [t \in {"t1"} |-> [Timer(now + 2) EXCEPT !.paused = TRUE,
                                                            !.paused_remaining = 2]]}
    /\ settings \in {Settings(e, "continue", "continue") : e \in BOOLEAN}
    /\ pomodoro \in {IdlePomodoro, WorkSession(now, 2)}
    \* the plugin is loaded, or it is stopped and the loader is about to call _main
    /\ tasks \in {StartTasks({"alarm", "reminder", "monitor"}
                             \cup (IF timers["t1"].paused THEN {} ELSE {"t1"})
                             \cup (IF pomodoro.active THEN {"pomodoro"} ELSE {})),
                  StartTasks({})}
    /\ env = Env(RestartDeltas, TRUE)
    /\ InitCommon

NextRestart ==
    \/ _alarm_checker
    \/ _reminder_checker
    \/ _pomodoro_handler
    \/ _timer_handler
    \/ replaced_timer_handler
    \/ _suspend_monitor
    \/ Advance
    \/ cancel_timer
    \/ Loaded /\ pause_timer
    \/ Loaded /\ resume_timer
    \/ _unload
    \/ _main

SpecRestart == InitRestart /\ [][NextRestart]_vars

(* C20: no due timer is dropped silently: a step of the timer handler or of
   _main that takes a timer that is not paused out of the store, with missed
   alerts enabled, yields exactly one of a timer_completed event and a timer
   MissedItem; nothing in the program refers to the timer afterwards. *)
C20_NoTimerDroppedSilently ==
    (/\ step.op \in {"timer_end", "main"}
     /\ settings.missed_alerts_enabled
     /\ "t1" \in DOMAIN step.pre.timers
     /\ ~step.pre.timers["t1"].paused
     /\ "t1" \notin DOMAIN timers)
        => Cardinality(emitted("alarme_timer_completed"))
              + Cardinality(logged("t1")) = 1

(* C21: the passage of time does nothing to a paused timer, across a restart
   of the plugin too: until resume_timer or cancel_timer is called the timer
   stays in the store with paused_remaining and every other field unchanged,
   no timer_completed event is emitted and no timer MissedItem is logged. *)
C21_PausedTimerFrozen ==
    [][("t1" \in DOMAIN timers /\ timers["t1"].paused
            /\ step'.op \notin {"resume_timer", "cancel_timer"})
        => /\ "t1" \in DOMAIN timers'
           /\ timers'["t1"] = timers["t1"]
           /\ \A i \in 1..Len(emits') : emits'[i].name # "alarme_timer_completed"
           /\ \A i \in 1..Len(missed') : missed'[i].id # "t1"]_vars

(* C24: at every moment at most one handler task of a timer is alive, across
   pause_timer, resume_timer, cancel_timer and the start of the plugin. *)
C24_OneHandlerPerTimer ==
    Cardinality({n \in {"t1", "t1_old"} : tasks[n].alive}) <= 1

----------------------------------------------------------------------------
(* The reminders: the reminder "r1" about to trigger, the reminder loop, the
   suspend monitor and the frontend's reminder operations. *)

ReminderStart == 8 * Hour

ReminderDeltas == {1, 2, 70}

InitReminder ==
    /\ now = ReminderStart
    /\ alarms = <<>>
    /\ timers = <<>>
    /\ pomodoro = IdlePomodoro
    /\ \E g \in BOOLEAN, z \in BOOLEAN, n \in {0 - 1, 1} :
          /\ z => g
          /\ reminders = [r \in {"r1"} |->
                             [Reminder(now + 2, g) EXCEPT !.triggers_remaining = n,
                                                          !.recurrences = n,
                                                          !.reset_on_game_start = z]]
    /\ settings \in {Settings(TRUE, rb, "continue") : rb \in {"continue", "pause"}}
    /\ tasks = StartTasks({"reminder", "monitor"})
    /\ env = Env(ReminderDeltas, TRUE)
    /\ InitCommon

NextReminder ==
    \/ _reminder_checker
    \/ _suspend_monitor
    \/ Advance
    \/ create_reminder
    \/ update_reminder
    \/ delete_reminder
    \/ toggle_reminder
    \/ set_game_running

SpecReminder == InitReminder /\ [][NextReminder]_vars

----------------------------------------------------------------------------
(* Properties of the reminders *)

(* C22: in every state of the reminder store a reminder whose
   triggers_remaining is 0 is disabled. *)
C22_ExhaustedIsDisabled ==
    \A r \in DOMAIN reminders :
        reminders[r].triggers_remaining = 0 => ~reminders[r].enabled

(* C23: a step of the reminder loop or of the suspend reconciler, in either
   mode, logs no MissedItem for a reminder flagged only_while_gaming; while
   the foreground-activity signal is false the step neither fires such a
   reminder nor changes its next_trigger or its triggers_remaining. *)
C23_GamingOnlyNeverMissed ==
    step.op \in {"reminder_check", "reconcile"} =>
        \A r \in DOMAIN step.pre.reminders :
            step.pre.reminders[r].only_while_gaming =>
                /\ logged(r) = {}
                /\ ~game_running =>
                      /\ r \notin step.fired
                      /\ \A i \in 1..Len(emits) :
                            emits[i].name = "alarme_reminder_triggered" => emits[i].id # r
                      /\ r \in DOMAIN reminders
                      /\ reminders[r].next_trigger = step.pre.reminders[r].next_trigger
                      /\ reminders[r].triggers_remaining
                            = step.pre.reminders[r].triggers_remaining

\* the loop finds a gaming-only reminder more than a minute overdue while a
\* game runs, and advances it without logging
C23_OverdueAdvancedSilently ==
    /\ step.op = "reminder_check"
    /\ game_running
    /\ "r1" \in step.lost
    /\ step.pre.reminders["r1"].only_while_gaming
    /\ now - step.pre.reminders["r1"].next_trigger > MISSED_DELAY
    /\ reminders["r1"].next_trigger = now + reminders["r1"].frequency_minutes * Minute
    /\ logged("r1") = {}

----------------------------------------------------------------------------
(* Properties of the missed-items log *)

(* C25: the log never holds two items of the same id whose due times are less
   than 60 seconds apart, whatever the loops and the reconciler have reported
   (the same gap reconciled twice included), and reporting a logged occurrence
   again leaves the log as it is. *)
C25_LogDeduplicated ==
    /\ \A i, j \in 1..Len(missed) :
          (i # j /\ missed[i].id = missed[j].id)
              => Abs(missed[i].due_time - missed[j].due_time) >= DEDUP_WINDOW
    /\ \A i \in 1..Len(missed) :
          _add_missed_item(missed, missed[i].type, missed[i].id, missed[i].due_time,
                           0, now) = missed

\* a second pass over the same gap has reported the alarm's occurrence again
C25_ReportedTwice ==
    /\ step.op = "reconcile"
    /\ settings.missed_alerts_enabled
    /\ \E i \in 1..Len(step.pre.missed) :
          /\ step.pre.missed[i].id = "a1"
          /\ step.pre.missed[i].due_time > step.gap[1]
          /\ step.pre.missed[i].due_time < step.gap[2]
    /\ missed = step.pre.missed

----------------------------------------------------------------------------
(* Operations that name an id no store holds: the stores hold the alarm "a2"
   and the reminder "r2", and the frontend names "t1", "a1" and "r1". *)

UnknownStart == 8 * Hour

UnknownDeltas == {1, 7}

InitUnknown ==
    /\ now = UnknownStart
    /\ alarms \in {[a \in {"a2"} |-> Alarm(<<9, 0>>, <<"daily">>, None, p)] : p \in BOOLEAN}
    /\ reminders = [r \in {"r2"} |-> Reminder(now + 10, FALSE)]
    /\ timers = <<>>
    /\ settings = Settings(TRUE, "continue", "continue")
    /\ pomodoro = IdlePomodoro
    /\ tasks = StartTasks({"alarm", "reminder", "monitor"})
    /\ env = Env(UnknownDeltas, TRUE)
    /\ InitCommon

NextUnknown ==
    \/ _alarm_checker
    \/ _reminder_checker
    \/ _suspend_monitor
    \/ Advance
    \/ cancel_timer
    \/ pause_timer
    \/ resume_timer
    \/ update_timer
    \/ cancel_alarm
    \/ toggle_alarm
    \/ update_alarm
    \/ snooze_alarm
    \/ update_reminder
    \/ delete_reminder
    \/ toggle_reminder

SpecUnknown == InitUnknown /\ [][NextUnknown]_vars

\* the last step left every store, every task and the inhibitor as they were and
\* emitted nothing
untouched ==
    /\ emits = <<>>
    /\ alarms = step.pre.alarms
    /\ reminders = step.pre.reminders
    /\ timers = step.pre.timers
    /\ pomodoro = step.pre.pomodoro
    /\ stats = step.pre.stats
    /\ missed = step.pre.missed
    /\ tasks = step.pre.tasks
    /\ inhibitor = step.pre.inhibitor

(* C26: a timer, alarm or reminder operation that names an unknown id (cancel,
   pause, resume, update timer; cancel, toggle, update, snooze alarm; update,
   delete, toggle reminder) emits no event and leaves every store, every task
   and the sleep inhibitor unchanged. *)
C26_UnknownIdRefused ==
    /\ (/\ step.op \in {"cancel_timer", "pause_timer", "resume_timer", "update_timer"}
        /\ "t1" \notin DOMAIN step.pre.timers) => untouched
    /\ (/\ step.op \in {"cancel_alarm", "toggle_alarm", "update_alarm", "snooze_alarm"}
        /\ "a1" \notin DOMAIN step.pre.alarms) => untouched
    /\ (/\ step.op \in {"update_reminder", "delete_reminder", "toggle_reminder"}
        /\ "r1" \notin DOMAIN step.pre.reminders) => untouched

\* snooze_alarm names an alarm that is not stored while the inhibitor is active
C26_UnknownAlarmSnoozed ==
    /\ step.op = "snooze_alarm"
    /\ "a1" \notin DOMAIN step.pre.alarms
    /\ step.pre.alarms # <<>>
    /\ inhibitor.active
    /\ untouched

----------------------------------------------------------------------------
(* get_overlay_data.  An alert is [id, category, time, preventing]: preventing
   tells the list the code put it on, sleep_preventing_alerts or alerts. *)

TimerOrder == <<"t1">>

Alert(category, id, time, preventing) ==
    [id |-> <<category, id>>, category |-> category, time |-> time,
     preventing |-> preventing]

\* the alert of one item, or <<>> where the code appends none
timer_alert(id, t) ==
    LET timer == timers[id]
    IN  IF timer.end_time - t > 0
           /\ (timer.prevent_sleep \/ settings.overlay_show_timers)
        THEN <<Alert("timer", id, timer.end_time, timer.prevent_sleep)>>
        ELSE <<>>

alarm_alert(id, t, cutoff) ==
    LET alarm == alarms[id]
        next_trigger == _calculate_next_trigger(alarm, t)
        is_preventing == /\ alarm.prevent_sleep
                         /\ 0 < next_trigger - t
                         /\ next_trigger - t <= alarm.prevent_sleep_window * Minute
    IN  IF alarm.enabled /\ Truthy(next_trigger)
           /\ (next_trigger <= cutoff \/ is_preventing)
           /\ (is_preventing \/ settings.overlay_show_alarms)
        THEN <<Alert("alarm", id, next_trigger, is_preventing)>>
        ELSE <<>>

pomodoro_alert(t) ==
    IF pomodoro.active /\ Truthy(pomodoro.end_time) /\ pomodoro.end_time - t > 0
       /\ (settings.pomodoro_prevent_sleep \/ settings.overlay_show_pomodoros)
    THEN <<Alert("pomodoro", "", pomodoro.end_time, settings.pomodoro_prevent_sleep)>>
    ELSE <<>>

reminder_alert(id, t, cutoff) ==
    LET reminder == reminders[id]
    IN  IF reminder.enabled
           /\ ~(reminder.only_while_gaming /\ ~game_running)
           /\ Truthy(reminder.next_trigger)
           /\ (reminder.next_trigger <= cutoff \/ reminder.prevent_sleep)
           /\ (reminder.prevent_sleep \/ settings.overlay_show_reminders)
        THEN <<Alert("reminder", id, reminder.next_trigger, reminder.prevent_sleep)>>
        ELSE <<>>

\* the appends of one loop over a store, in the store's order
RECURSIVE appended(_)
appended(lists) ==
    IF lists = <<>> THEN <<>> ELSE Head(lists) \o appended(Tail(lists))

\* list.sort(key=lambda a: a["time"]): stable
RECURSIVE sort_by_time(_)
sort_by_time(list) ==
    IF list = <<>> THEN <<>>
    ELSE LET Least(i) == \A j \in 1..Len(list) :
                            \/ list[i].time < list[j].time
                            \/ list[i].time = list[j].time /\ i <= j
             i == CHOOSE k \in 1..Len(list) : Least(k)
         IN  <<list[i]>> \o sort_by_time(SubSeq(list, 1, i - 1) \o SubSeq(list, i + 1, Len(list)))

\* combined = sleep_preventing_alerts + alerts; combined[:max_alerts]
capped(sleep_preventing_alerts, regular, max_alerts) ==
    LET combined == sleep_preventing_alerts \o regular
    IN  SubSeq(combined, 1, IF Len(combined) < max_alerts THEN Len(combined) ELSE max_alerts)

overlay_alerts(t) ==
    LET cutoff == t + settings.overlay_time_window * Hour
        tm == Items(timers, TimerOrder)
        al == Items(alarms, AlarmOrder)
        rm == Items(reminders, ReminderOrder)
        found == appended([i \in 1..Len(tm) |-> timer_alert(tm[i], t)])
                    \o appended([i \in 1..Len(al) |-> alarm_alert(al[i], t, cutoff)])
                    \o pomodoro_alert(t)
                    \o appended([i \in 1..Len(rm) |-> reminder_alert(rm[i], t, cutoff)])
        Preventing(a) == a.preventing
        Regular(a) == ~a.preventing
        sleep_preventing_alerts == sort_by_time(SelectSeq(found, Preventing))
        sleep_ids == {sleep_preventing_alerts[i].id : i \in 1..Len(sleep_preventing_alerts)}
        Unlisted(a) == a.id \notin sleep_ids
        regular == SelectSeq(sort_by_time(SelectSeq(found, Regular)), Unlisted)
    IN  IF ~settings.overlay_enabled THEN <<>>
        ELSE capped(sleep_preventing_alerts, regular, settings.overlay_max_alerts)

get_overlay_data ==
    /\ env.nops < MaxOps
    /\ env' = [env EXCEPT !.nops = @ + 1]
    /\ step' = [Did("get_overlay_data") EXCEPT !.returned = overlay_alerts(now)]
    /\ emits' = <<>>
    /\ UNCHANGED <<alarms, reminders, pomodoro, stats, timers, missed, inhibitor>>
    /\ UserFrame

----------------------------------------------------------------------------
(* The overlay: a timer, an alarm, a reminder and a Pomodoro session, some
   inside the overlay's time window and some beyond it. *)

OverlayStart == 8 * Hour

OverlayDeltas == {1, 7}

MaxAlerts == {1, 3}

InitOverlay ==
    /\ now = OverlayStart
    /\ \E hm \in AlarmTimes, far \in BOOLEAN, p \in [{"t", "a", "r"} -> BOOLEAN] :
          /\ alarms = [a \in {"a1"} |-> Alarm(hm, <<"daily">>, None, p["a"])]
          /\ timers = [t \in {"t1"} |->
                          [Timer(IF far THEN now + 2 * Hour ELSE now + 2)
                              EXCEPT !.prevent_sleep = p["t"]]]
          /\ reminders = [r \in {"r1"} |->
                             [Reminder(IF far THEN now + 2 ELSE now + 2 * Hour, FALSE)
                                 EXCEPT !.prevent_sleep = p["r"]]]
    /\ settings \in {[DEFAULT_SETTINGS EXCEPT !.overlay_enabled = TRUE,
                                              !.overlay_max_alerts = m] : m \in MaxAlerts}
    /\ pomodoro \in {IdlePomodoro, WorkSession(now, 2)}
    /\ tasks = StartTasks({"alarm", "reminder", "t1"}
                          \cup (IF pomodoro.active THEN {"pomodoro"} ELSE {}))
    /\ env = Env(OverlayDeltas, TRUE)
    /\ InitCommon

NextOverlay ==
    \/ _alarm_checker
    \/ _reminder_checker
    \/ _pomodoro_handler
    \/ _timer_handler
    \/ Advance
    \/ get_overlay_data

SpecOverlay == InitOverlay /\ [][NextOverlay]_vars

----------------------------------------------------------------------------
(* Properties of the overlay *)

\* C28: get_overlay_data returns at most overlay_max_alerts alerts, and every
\* alert it returns that is not preventing sleep now, of whichever category,
\* is due no later than overlay_time_window hours from now.
C28_OverlayCapped ==
    step.op = "get_overlay_data" =>
        /\ Len(step.returned) <= settings.overlay_max_alerts
        /\ \A i \in 1..Len(step.returned) :
              ~step.returned[i].preventing =>
                  step.returned[i].time <= now + settings.overlay_time_window * Hour

----------------------------------------------------------------------------
(* One fire per occurrence *)

\* C30: once the alarm loop has fired a recurring alarm, by a regular or by a
\* snooze-triggered fire, it does not fire that alarm again within the next 120
\* seconds unless snooze_alarm, toggle_alarm or update_alarm was called on the
\* alarm in between.
C30_OneFirePerOccurrence ==
    step.op = "alarm_check" =>
        \A a \in step.fired :
            LET last == step.pre.fires[a]
            IN  (/\ step.pre.alarms[a].recurring # <<"once">>
                 /\ last # <<>>
                 /\ last[2] = env.nops)
                => now - last[1] >= RECENT_TRIGGER

----------------------------------------------------------------------------
(* The next trigger of a stored alarm: the alarm checker alone, over every
   weekday, around the alarm's minute and around midnight.  The second alarm
   follows the first in the store. *)

TriggerOffsets == {10, 9 * Hour - 1, 9 * Hour + 91, 23 * Hour + 59 * Minute + 58}

TriggerStarts == {d * Day + o : d \in 1..7, o \in TriggerOffsets}

TriggerDeltas == {1, 12, Day}

TriggerRecurrings ==
    {<<"weekdays">>, <<"weekends">>, <<"5", "6">>, <<"0", "2">>, <<"7">>, <<"x">>,
     <<"1", "x">>}

InitTrigger ==
    /\ now \in TriggerStarts
    /\ \E hm \in AlarmTimes, recurring \in TriggerRecurrings,
          last_triggered \in {None, now - Minute} :
          alarms = [a \in {"a1", "a2"} |->
                       IF a = "a1"
                       THEN [Alarm(hm, recurring, None, FALSE)
                                EXCEPT !.last_triggered = last_triggered]
                       ELSE Alarm(<<9, 0>>, <<"daily">>, None, FALSE)]
    /\ reminders = <<>>
    /\ timers = <<>>
    /\ pomodoro = IdlePomodoro
    /\ settings = Settings(TRUE, "continue", "continue")
    /\ tasks = StartTasks({"alarm"})
    /\ env = Env(TriggerDeltas, TRUE)
    /\ InitCommon

NextTrigger ==
    \/ _alarm_checker
    \/ Advance

SpecTrigger == InitTrigger /\ [][NextTrigger]_vars

----------------------------------------------------------------------------
(* Properties of the next trigger *)

unsnoozed(alarm) == alarm.enabled /\ ~Truthy(alarm.snoozed_until)

custom(recurring) ==
    \A name \in {"once", "daily", "weekdays", "weekends"} : ~Named(recurring, name)

malformed(alarm) == custom(alarm.recurring) /\ ~Parses(alarm.recurring)

\* today's hour:minute after the anti-double-fire and the past-grace advances
raw_candidate(alarm, t) == past_grace(recent_guard(alarm, target_today(alarm, t), t), t)

\* C27: for an enabled, unsnoozed alarm whose custom recurring string is no
\* comma-separated list of integers the calculation gives the raw candidate
\* instant, and a pass of the alarm loop over such an alarm ends as every
\* pass does: the loop stays alive and the alarms after it are handled.
C27_MalformedGivesRawCandidate ==
    /\ \A a \in DOMAIN alarms :
          (unsnoozed(alarms[a]) /\ malformed(alarms[a])) =>
              _calculate_next_trigger(alarms[a], now) = raw_candidate(alarms[a], now)
    /\ (step.op = "alarm_check" /\ unsnoozed(step.pre.alarms["a1"])
            /\ malformed(step.pre.alarms["a1"])) =>
          /\ tasks["alarm"].alive /\ tasks["alarm"].wake = now + POLL
          /\ alarm_outcome(step.pre.alarms["a2"], now) = "fire" => "a2" \in step.fired

\* a pass over a malformed alarm that is not due has fired the alarm after it
C27_OtherAlarmFired ==
    /\ step.op = "alarm_check"
    /\ unsnoozed(step.pre.alarms["a1"]) /\ malformed(step.pre.alarms["a1"])
    /\ step.pre.alarms["a1"].recurring = <<"1", "x">>
    /\ _calculate_next_trigger(step.pre.alarms["a1"], now) > now
    /\ step.fired = {"a2"}

walked(recurring) ==
    \/ Named(recurring, "weekdays") \/ Named(recurring, "weekends")
    \/ custom(recurring) /\ Parses(recurring)

\* the occurrences of the alarm from yesterday's to the one eight days ahead
occurrences(alarm, t) == {target_today(alarm, t) + k * Day : k \in (0 - 1)..8}

recently_triggered(alarm, t) ==
    Truthy(alarm.last_triggered) /\ t - alarm.last_triggered < RECENT_TRIGGER

admissible(alarm, t) ==
    {c \in occurrences(alarm, t) :
        /\ occurrence_valid(alarm.recurring, c)
        /\ c >= t - ALARM_GRACE
        /\ recently_triggered(alarm, t) => c # target_today(alarm, t)}

earliest(S) == CHOOSE c \in S : \A d \in S : c <= d

\* C29: for an enabled, unsnoozed alarm with a weekday filter the calculation
\* gives the earliest hour:minute:00 instant whose weekday passes the filter,
\* that is no more than 90 seconds before now and that is not today's when the
\* alarm was triggered less than 120 seconds ago; the walk starts from the
\* raw candidate and ends within 7 day-steps when no weekday passes.
C29_EarliestAdmissibleOccurrence ==
    \A a \in DOMAIN alarms :
        (unsnoozed(alarms[a]) /\ walked(alarms[a].recurring)) =>
            LET next_trigger == _calculate_next_trigger(alarms[a], now)
                raw == raw_candidate(alarms[a], now)
            IN  /\ admissible(alarms[a], now) # {} =>
                      next_trigger = earliest(admissible(alarms[a], now))
                /\ raw <= next_trigger /\ next_trigger <= raw + 7 * Day

----------------------------------------------------------------------------
(* The write-back of a fire *)

\* C31: a fire of a recurring alarm by the alarm loop leaves the alarm enabled,
\* clears snoozed_until and sets last_triggered to the current instant only
\* when no snooze caused the fire; a snooze-triggered fire leaves last_triggered
\* as it was; no other field of the alarm changes, and an alarm the pass
\* neither fired nor classified missed is left as it was.
C31_FireWriteBack ==
    step.op = "alarm_check" =>
        /\ DOMAIN alarms = DOMAIN step.pre.alarms
        /\ \A a \in DOMAIN alarms :
              LET before == step.pre.alarms[a]
              IN  /\ (a \in step.fired /\ before.recurring # <<"once">>) =>
                        /\ alarms[a].enabled
                        /\ alarms[a] =
                              [before EXCEPT
                                  !.snoozed_until = None,
                                  !.last_triggered =
                                      IF before.snoozed_until = None THEN now ELSE @]
                  /\ a \notin step.fired \cup step.lost => alarms[a] = before

\* a snoozed recurring alarm that had fired before was fired by its snooze
C31_SnoozeFireKeepsStamp ==
    /\ step.op = "alarm_check" /\ "a1" \in step.fired
    /\ step.pre.alarms["a1"].recurring # <<"once">>
    /\ step.pre.alarms["a1"].snoozed_until # None
    /\ step.pre.alarms["a1"].last_triggered # None
    /\ alarms["a1"].last_triggered = step.pre.alarms["a1"].last_triggered
    /\ alarms["a1"].last_triggered < now

----------------------------------------------------------------------------
(* An occurrence around a suspend *)

\* C32: an occurrence of an alarm, its id and due instant, that the missed log
\* holds after a suspend is not fired by the alarm loop afterwards.
C32_LoggedOccurrenceNotFired ==
    step.op = "alarm_check" =>
        \A a \in step.fired :
            ~has_missed(step.pre.missed, a,
                        _calculate_next_trigger(step.pre.alarms[a], now))

----------------------------------------------------------------------------
(* The Pomodoro session across a suspend *)

\* the reconciler's last pass, reporting missed items, found an active phase
\* that ended inside the gap
phase_ended_in_gap ==
    /\ step.op = "reconcile"
    /\ settings.missed_alerts_enabled
    /\ settings.pomodoro_suspend_behavior = "continue"
    /\ step.pre.pomodoro.active
    /\ step.pre.pomodoro.end_time <= step.gap[2]

\* C33: in 'continue' mode, a gap whose end is at or after the end_time of the
\* active Pomodoro phase makes the reconciler cancel the handler, log exactly
\* one pomodoro MissedItem due at end_time and store the session as inactive:
\* afterwards the stored state has active = false, a pomodoro-updated event
\* has been emitted and the phase has not been advanced.
C33_ExpiredPhaseReported ==
    phase_ended_in_gap =>
        /\ ~tasks["pomodoro"].alive
        /\ \E m \in logged("pomodoro-session") :
              /\ logged("pomodoro-session") = {m}
              /\ m.due_time = step.pre.pomodoro.end_time
        /\ pomodoro = [step.pre.pomodoro EXCEPT !.active = FALSE]
        /\ emitted("alarme_pomodoro_updated")

----------------------------------------------------------------------------
(* The Pomodoro handler of an active session *)

\* C34: once _main has run, a stored Pomodoro session with active = true has a
\* live handler task that will process the expiry of its phase.
C34_ActiveSessionHasHandler ==
    (Loaded /\ pomodoro.active) => tasks["pomodoro"].alive

----------------------------------------------------------------------------
(* The alarm loop suspended in the middle of a cycle *)

\* env.cycle holds the cycle of the alarm loop that waits at an await between
\* its store read and its store write: the alarm it is handling, its
\* current_time and the dict it read.  <<>> when the loop is not inside a cycle.
NoCycle == <<>>

\* _alarm_checker up to `await self._add_missed_item(...)`: the loop has read
\* the store, the alarms before `a` needed nothing, `a` is classified as missed
\* and the item is logged; the frontend notification inside _add_missed_item
\* is the suspension point
alarm_cycle_suspend ==
    /\ env.cycle = NoCycle
    /\ Runnable("alarm")
    /\ ~Stale
    /\ \E i \in 1..Len(Items(alarms, AlarmOrder)) :
          LET ids == Items(alarms, AlarmOrder)
              a == ids[i]
              next_trigger == _calculate_next_trigger(alarms[a], now)
          IN  /\ \A j \in 1..(i - 1) :
                    alarm_outcome(alarms[ids[j]], now) \notin {"missed", "fire"}
              /\ alarm_outcome(alarms[a], now) = "missed"
              /\ missed_events(missed, a, next_trigger) # <<>>
              /\ missed' = _add_missed_item(missed, "alarm", a, next_trigger, 0, now)
              /\ emits' = missed_events(missed, a, next_trigger)
              /\ env' = [env EXCEPT !.cycle = [id |-> a, current_time |-> now,
                                               alarms |-> alarms]]
    /\ step' = [Did("alarm_suspend") EXCEPT !.pre = Snapshot]
    /\ UNCHANGED <<now, alarms, reminders, pomodoro, stats, timers, settings,
                   game_running, last_tick, inhibitor, tasks, mon>>

\* the ids the loop still iterates over after `a`
after_in_order(ids, a) ==
    LET later(x) == \E i, j \in 1..Len(AlarmOrder) :
                        AlarmOrder[i] = a /\ AlarmOrder[j] = x /\ i < j
    IN  SelectSeq(ids, later)

\* _alarm_checker from the return of _add_missed_item on: the missed alarm is
\* marked as handled in the dict the loop holds, the dict is saved, and the
\* iteration goes on.  With live references the dict is the stored one: an
\* alarm deleted meanwhile raises KeyError at the first write, and a dict
\* whose size changed raises RuntimeError at the next iteration; both end the
\* cycle in the except branch.
alarm_cycle_resume ==
    /\ env.cycle # NoCycle
    /\ LET a == env.cycle.id
           t == env.cycle.current_time
           held == IF env.live THEN alarms ELSE env.cycle.alarms
       IN  IF a \notin DOMAIN held
           THEN /\ emits' = <<>>
                /\ UNCHANGED <<alarms, missed>>
                /\ step' = [Did("alarm_resume") EXCEPT !.pre = Snapshot, !.raised = TRUE]
           ELSE LET saved == [held EXCEPT ![a] = alarm_after_missed(held[a], t)]
                    resized == env.live /\ DOMAIN alarms # DOMAIN env.cycle.alarms
                    r == check_alarms(IF resized THEN <<>>
                                      ELSE after_in_order(Items(saved, AlarmOrder), a), t,
                             [alarms |-> saved, missed |-> missed,
                              events |-> <<Event("alarme_alarms_updated", "", 0)>>,
                              fired |-> {}, lost |-> {a}])
                IN  /\ alarms' = r.alarms
                    /\ missed' = r.missed
                    /\ emits' = r.events
                    /\ step' = [Did("alarm_resume") EXCEPT
                                    !.fired = r.fired, !.lost = r.lost,
                                    !.fires = [x \in DOMAIN @ |->
                                        IF x \in r.fired THEN <<now, env.nops>> ELSE @[x]],
                                    !.raised = resized,
                                    !.pre = Snapshot]
    /\ tasks' = Sleep(tasks, "alarm", POLL)
    /\ env' = [env EXCEPT !.cycle = NoCycle]
    /\ UNCHANGED <<now, reminders, pomodoro, stats, timers, settings, game_running,
                   last_tick, inhibitor, mon>>

RaceStart == 10 * Hour

RaceDeltas == {1, 2}

\* alarm a1 was snoozed and its snooze ended 100 seconds ago
InitRace ==
    /\ now = RaceStart
    /\ \E recurring \in {<<"once">>, <<"daily">>} :
          alarms = [a \in {"a1", "a2"} |->
                       IF a = "a1" THEN Alarm(<<9, 0>>, recurring, now - 100, FALSE)
                       ELSE Alarm(<<23, 59>>, <<"daily">>, None, FALSE)]
    /\ reminders = <<>>
    /\ timers = <<>>
    /\ pomodoro = IdlePomodoro
    /\ settings \in {Settings(e, "continue", "continue") : e \in BOOLEAN}
    /\ tasks = StartTasks({"alarm", "monitor"})
    /\ env \in {Env(RaceDeltas, live) : live \in BOOLEAN}
    /\ InitCommon

\* a user operation runs to its end while the loop waits; the loop's other
\* cycles run as one step
NextRace ==
    \/ alarm_cycle_suspend
    \/ alarm_cycle_resume
    \/ env.cycle = NoCycle /\ _alarm_checker
    \/ env.cycle = NoCycle /\ _suspend_monitor
    \/ env.cycle = NoCycle /\ Advance
    \/ cancel_alarm
    \/ update_alarm
    \/ snooze_alarm

SpecRace == InitRace /\ [][NextRace]_vars

----------------------------------------------------------------------------
(* A reminder with a finite number of recurrences *)

CountStart == 8 * Hour

\* clock steps: a poll, a late wake-up of the loop, and a suspension that
\* spans more than two periods of the reminder
CountDeltas == {1, 70, 31 * Minute}

\* create_reminder stores triggers_remaining = recurrences and the first
\* next_trigger one period ahead; the loop and the suspend monitor are running
InitCount ==
    /\ now = CountStart
    /\ alarms = <<>>
    /\ timers = <<>>
    /\ pomodoro = IdlePomodoro
    /\ \E f \in Frequencies, n \in {1, 2} : \E lead \in {2, f * Minute} :
          reminders = [r \in {"r1"} |->
                          [Reminder(now + lead, FALSE) EXCEPT !.frequency_minutes = f,
                                                              !.triggers_remaining = n,
                                                              !.recurrences = n]]
    /\ settings \in {Settings(TRUE, rb, "continue") : rb \in {"continue", "pause"}}
    /\ tasks = StartTasks({"reminder", "monitor"})
    /\ env = Env(CountDeltas, TRUE)
    /\ InitCommon

NextCount ==
    \/ _reminder_checker
    \/ _suspend_monitor
    \/ Advance

SpecCount == InitCount /\ [][NextCount]_vars

\* the number of occurrences of reminder r that the last step handled: one for
\* a trigger or a missed report of the loop, and for the reconciler in
\* 'continue' mode the number of periods it moved next_trigger forward
handled(r) ==
    LET before == step.pre.reminders[r]
    IN  IF step.op = "reminder_check"
        THEN IF r \in step.fired \cup step.lost THEN 1 ELSE 0
        ELSE IF settings.reminder_suspend_behavior = "continue"
             THEN (reminders[r].next_trigger - before.next_trigger)
                      \div (before.frequency_minutes * Minute)
             ELSE 0

\* C35: a step of the reminder loop or of the suspend reconciler that handles
\* occurrences of a reminder with triggers_remaining = k > 0 handles at most k
\* of them, lowers the counter by the number handled, never below 0, and
\* disables the reminder in the same write in which the counter reaches 0.
C35_CounterCountsOccurrences ==
    step.op \in {"reminder_check", "reconcile"} =>
        \A r \in DOMAIN reminders \cap DOMAIN step.pre.reminders :
            LET before == step.pre.reminders[r]
                after == reminders[r]
            IN  (before.enabled /\ before.triggers_remaining > 0) =>
                    /\ handled(r) <= before.triggers_remaining
                    /\ after.triggers_remaining = before.triggers_remaining - handled(r)
                    /\ after.triggers_remaining >= 0
                    /\ after.triggers_remaining = 0 => ~after.enabled

----------------------------------------------------------------------------
(* Pausing and resuming a timer *)

\* the last step was a pause_timer or resume_timer call that returned True
timer_call_done(op) == step.op = op /\ emits # <<>>

\* the last step was a pause_timer or resume_timer call that returned False
timer_call_refused(op) == step.op = op /\ emits = <<>>

\* the live handler tasks of timer t1
handlers_of_t1 == {n \in {"t1", "t1_old"} : tasks[n].alive}

\* C36: pause_timer stores the remaining time (floored at 0) and leaves no
\* handler; resume_timer sets end_time to the resume instant plus the stored
\* remaining time, removes paused_remaining and leaves exactly one running
\* handler, which uses the new end_time; pause_timer on a paused timer and
\* resume_timer on an unpaused timer change nothing.
C36_PauseResumeRestores ==
    /\ timer_call_done("pause_timer") =>
           /\ timers["t1"] =
                  [step.pre.timers["t1"] EXCEPT
                      !.paused = TRUE,
                      !.paused_remaining = Max(0, step.pre.timers["t1"].end_time - now)]
           /\ handlers_of_t1 = {}
    /\ timer_call_done("resume_timer") =>
           /\ timers["t1"] =
                  [step.pre.timers["t1"] EXCEPT
                      !.end_time = now + step.pre.timers["t1"].paused_remaining,
                      !.paused = FALSE,
                      !.paused_remaining = None]
           /\ handlers_of_t1 = {"t1"}
           /\ tasks["t1"].end_time = timers["t1"].end_time
    /\ (timer_call_refused("pause_timer") \/ timer_call_refused("resume_timer")) =>
           Snapshot = step.pre

----------------------------------------------------------------------------
(* Skipping a Pomodoro phase *)

\* C37: skip_pomodoro_phase on an active session stores the phase that the
\* natural expiry of the same phase in _pomodoro_handler would store (the same
\* is_break, current_session, current_cycle, break_type and duration); on an
\* inactive session it leaves the state as it is and starts no handler.
C37_SkipMatchesExpiry ==
    step.op = "skip_pomodoro_phase" =>
        IF step.pre.pomodoro.active
        THEN LET natural == next_phase(step.pre.pomodoro, now)
             IN  /\ pomodoro.active
                 /\ pomodoro.is_break = natural.is_break
                 /\ pomodoro.current_session = natural.current_session
                 /\ pomodoro.current_cycle = natural.current_cycle
                 /\ pomodoro.break_type = natural.break_type
                 /\ pomodoro.duration = natural.duration
        ELSE /\ pomodoro = step.pre.pomodoro
             /\ tasks = step.pre.tasks

\* a long break is skipped: session 1 of the next cycle begins
C37_LongBreakSkipped ==
    /\ step.op = "skip_pomodoro_phase"
    /\ step.pre.pomodoro.active
    /\ step.pre.pomodoro.break_type = "long"
    /\ ~pomodoro.is_break
    /\ pomodoro.current_session = 1
    /\ pomodoro.current_cycle = step.pre.pomodoro.current_cycle + 1
    /\ tasks["pomodoro"].alive

----------------------------------------------------------------------------
(* User operations during a cycle of the alarm loop *)

\* a cancel_alarm or update_alarm call has completed while the alarm loop
\* waits between its store read and its store write
changed_during_cycle ==
    /\ env.cycle # NoCycle
    /\ step.op \in {"cancel_alarm", "update_alarm"}
    /\ emits # <<>>

\* C38: when cancel_alarm or update_alarm completes while the alarm loop is
\* suspended between its store read and its store write, the loop's later
\* write does not bring a deleted alarm back and leaves the alarm that was
\* updated as the update stored it.
C38_WriteBackKeepsUserOp ==
    [][(changed_during_cycle /\ env'.cycle = NoCycle)
        => /\ DOMAIN alarms' \subseteq DOMAIN alarms
           /\ \A a \in DOMAIN alarms \cap DOMAIN alarms' :
                 (step.op = "update_alarm" /\ alarms[a] # env.cycle.alarms[a])
                     => alarms'[a] = alarms[a]]_vars

----------------------------------------------------------------------------
(* The sleep_inhibitor_updated event and the inhibitor state *)

\* the positions of the sleep_inhibitor_updated events among the events of
\* the last step
inhibitor_events == {i \in 1..Len(emits) : emits[i].name = "alarme_sleep_inhibitor_updated"}

\* C39: after a step that recomputed the inhibitor, the active field of the
\* last sleep_inhibitor_updated event it emitted equals the inhibitor state
\* (_sleep_inhibitor_active, which get_sleep_inhibitor_status returns), also
\* when acquiring the awake-handle failed.
C39_EventMatchesState ==
    \A i \in inhibitor_events :
        (\A j \in inhibitor_events : j <= i) =>
            ((emits[i].count = 1) <=> inhibitor.active)

----------------------------------------------------------------------------
(* A snooze the alarm loop classified as missed *)

\* the regular occurrences of the alarm that lie after instant t
regular_after(alarm, t) ==
    {c \in occurrences(alarm, t) : occurrence_valid(alarm.recurring, c) /\ c > t}

\* the MissedItems of alarm a that are due less than `within` seconds from the
\* given instant
items_due(a, due, within) ==
    {i \in 1..Len(missed) : missed[i].id = a /\ Abs(missed[i].due_time - due) < within}

\* C40: when the alarm loop classifies an alarm whose snoozed_until passed
\* more than 90 seconds ago as missed, it clears snoozed_until, disables a once
\* alarm, and leaves a recurring alarm enabled with last_triggered = now;
\* one MissedItem stands for the instant (its own, or one of the same alarm
\* less than 60 seconds away that absorbs it), and the alarm's next regular
\* occurrence is still due for firing when its instant comes.
C40_MissedSnoozeHandledOnce ==
    step.op = "alarm_check" =>
        \A a \in step.lost :
            LET before == step.pre.alarms[a]
                after == alarms[a]
            IN  Truthy(before.snoozed_until) =>
                    /\ after.snoozed_until = None
                    /\ before.recurring = <<"once">> => ~after.enabled
                    /\ before.recurring # <<"once">> =>
                          /\ after.enabled
                          /\ after.last_triggered = now
                          /\ regular_after(after, now) # {} =>
                                alarm_outcome(after, earliest(regular_after(after, now)))
                                    = "fire"
                    /\ settings.missed_alerts_enabled =>
                          /\ Cardinality(items_due(a, before.snoozed_until, 1)) <= 1
                          /\ items_due(a, before.snoozed_until, DEDUP_WINDOW) # {}
====
